---- MODULE Spec2Model ----
(***************************************************************************)
(* A model of the Ross Applied AI Consulting backend (express server):     *)
(* POST /api/chat, /api/walkthrough, /api/schedule, /api/schedule/confirm. *)
(*                                                                         *)
(* Each request runs in a slot.  A handler is cut at its awaits: one       *)
(* action per synchronous segment, so everything the code does between     *)
(* two suspension points happens in one step.  The outcome of an outbound  *)
(* call (AI completion, calendar lookup, email send) is chosen when the    *)
(* call returns.                                                           *)
(*                                                                         *)
(* JavaScript values are tagged records.  A string is a sequence of        *)
(* one-character strings; a fixed text of the server that no code ever     *)
(* inspects (an error message, a summary) is a one-token sequence.         *)
(***************************************************************************)
EXTENDS Integers, Sequences, FiniteSets, TLC

VARIABLES openai, calendlyToken, resendApiKey,
          rateLimitStore, clock,
          req, resp, calls, logs

vars == <<openai, calendlyToken, resendApiKey, rateLimitStore, clock,
          req, resp, calls, logs>>

config == <<openai, calendlyToken, resendApiKey>>

(***************************************************************************)
(* Bounds of the model.                                                    *)
(***************************************************************************)
MaxCount == 22

MaxWindows == 1

(***************************************************************************)
(* JavaScript values.                                                      *)
(***************************************************************************)
Undef == [t |-> "undef"]

Null == [t |-> "null"]

Str(s) == [t |-> "str", s |-> s]

Num(n) == [t |-> "num", n |-> n]

Obj(f) == [t |-> "obj", f |-> f]

Arr(a) == [t |-> "arr", a |-> a]

Bool(b) == [t |-> "bool", b |-> b]

Lit(x) == Str(<<x>>)

EmptyStr == Str(<< >>)

Truthy(v) ==
  CASE v.t = "undef" -> FALSE
    [] v.t = "null" -> FALSE
    [] v.t = "str" -> Len(v.s) > 0
    [] v.t = "num" -> v.n # 0
    [] v.t = "bool" -> v.b
    [] OTHER -> TRUE

\* a || b (the left operand is evaluated once, as in the code)
Or(a, b) == CHOOSE r \in {IF Truthy(x) THEN x ELSE b : x \in {a}} : TRUE

\* v?.k : undefined on null and undefined, else the property
OptGet(v, k) ==
  CHOOSE r \in {IF x.t = "obj" /\ k \in DOMAIN x.f THEN x.f[k] ELSE Undef : x \in {v}} : TRUE

\* v.k throws a TypeError on null and undefined
GetThrows(v) == v.t \in {"undef", "null"}

RECURSIVE Digits(_)
Digits(n) ==
  IF n < 10 THEN <<(<<"0","1","2","3","4","5","6","7","8","9">>)[n + 1]>>
  ELSE Digits(n \div 10) \o Digits(n % 10)

ObjectText == <<"[object Object]">>

RECURSIVE ToStr(_)
RECURSIVE JoinStr(_, _)
\* Array.prototype.join: null and undefined elements give the empty string
JoinStr(a, sep) ==
  IF Len(a) = 0 THEN << >>
  ELSE LET h == IF Head(a).t \in {"undef", "null"} THEN << >> ELSE ToStr(Head(a))
       IN IF Len(a) = 1 THEN h ELSE h \o sep \o JoinStr(Tail(a), sep)

\* String(v), the sequence of characters
ToStr(v) ==
  CASE v.t = "undef" -> <<"u","n","d","e","f","i","n","e","d">>
    [] v.t = "null" -> <<"n","u","l","l">>
    [] v.t = "str" -> v.s
    [] v.t = "num" -> Digits(v.n)
    [] v.t = "arr" -> JoinStr(v.a, <<",">>)
    [] v.t = "bool" -> IF v.b THEN <<"t","r","u","e">> ELSE <<"f","a","l","s","e">>
    [] OTHER -> ObjectText

WS == {" ", "\t", "\n"}

RECURSIVE SkipWs(_, _)
\* the first position from i on that holds no white space (Len(s) + 1 if none)
SkipWs(s, i) ==
  IF i > Len(s) \/ s[i] \notin WS THEN i ELSE SkipWs(s, i + 1)

RECURSIVE SkipWsBack(_, _)
\* the last position up to i that holds no white space (0 if none)
SkipWsBack(s, i) ==
  IF i < 1 \/ s[i] \notin WS THEN i ELSE SkipWsBack(s, i - 1)

\* String.prototype.trim
Trim(s) == SubSeq(s, SkipWs(s, 1), SkipWsBack(s, Len(s)))

UpperCase == <<"A","B","C","D","E","F","G","H","I","J","K","L","M",
               "N","O","P","Q","R","S","T","U","V","W","X","Y","Z">>

LowerCase == <<"a","b","c","d","e","f","g","h","i","j","k","l","m",
               "n","o","p","q","r","s","t","u","v","w","x","y","z">>

LowerOf == [c \in {UpperCase[i] : i \in 1..26} |->
              LowerCase[CHOOSE i \in 1..26 : UpperCase[i] = c]]

LowerChar(c) == IF c \in DOMAIN LowerOf THEN LowerOf[c] ELSE c

\* String.prototype.toLowerCase
ToLower(s) == CHOOSE r \in {[i \in 1..Len(text) |-> LowerChar(text[i])] : text \in {s}} : TRUE

\* String.prototype.includes
Includes(s, k) ==
  \E text \in {s} : \E i \in 0..(Len(text) - Len(k)) : SubSeq(text, i + 1, i + Len(k)) = k

Repeat(c, n) == [i \in 1..n |-> c]

\* typeof v === "object" (true of null and of arrays)
TypeofObject(v) == v.t \in {"obj", "arr", "null"}

\* { ...a, ...b } on the properties of two objects
Merge(a, b) ==
  [k \in DOMAIN a \cup DOMAIN b |-> IF k \in DOMAIN b THEN b[k] ELSE a[k]]

\* the own enumerable properties that { ...v } copies
Spread(v) ==
  CASE v.t = "obj" -> v.f
    [] v.t = "arr" ->
         [k \in {Digits(i - 1)[1] : i \in 1..Len(v.a)} |->
            v.a[CHOOSE i \in 1..Len(v.a) : Digits(i - 1)[1] = k]]
    [] OTHER -> << >>

\* Array.prototype.find: the first element that satisfies Test, else undefined
Find(a, Test(_)) ==
  IF \E i \in 1..Len(a) : Test(a[i])
  THEN a[CHOOSE i \in 1..Len(a) : Test(a[i]) /\ \A j \in 1..(i - 1) : ~Test(a[j])]
  ELSE Undef

(***************************************************************************)
(* JSON.parse on a text given as its tokens.                               *)
(***************************************************************************)
\* the string tokens of the texts of the model, and what each denotes
JsonStringTable ==
  << <<"\"summary\"", "summary">>, <<"\"extracted\"", "extracted">>,
     <<"\"industry\"", "industry">>, <<"\"team_size\"", "team_size">>,
     <<"\"pain_points\"", "pain_points">>, <<"\"tools\"", "tools">>,
     <<"\"goals\"", "goals">>, <<"\"timeline\"", "timeline">>,
     <<"\"budget\"", "budget">>,
     <<"\"recommended_services\"", "recommended_services">>,
     <<"\"suggested_next_step\"", "suggested_next_step">>,
     <<"\"unknown\"", "unknown">>, <<"\"Retail\"", "Retail">>,
     <<"\"We can help.\"", "We can help.">>,
     <<"\"AI Integration\"", "AI Integration">>,
     <<"\"Book a call.\"", "Book a call.">> >>

IsJsonString(tok) == \E i \in 1..Len(JsonStringTable) : JsonStringTable[i][1] = tok

Unquote(tok) ==
  JsonStringTable[CHOOSE i \in 1..Len(JsonStringTable) : JsonStringTable[i][1] = tok][2]

JsonNumberTable == << <<"0", 0>>, <<"12", 12>> >>

IsJsonNumber(tok) == \E i \in 1..Len(JsonNumberTable) : JsonNumberTable[i][1] = tok

NumberOf(tok) ==
  JsonNumberTable[CHOOSE i \in 1..Len(JsonNumberTable) : JsonNumberTable[i][1] = tok][2]

ParseFail == [ok |-> FALSE, v |-> Undef, i |-> 0]

Parsed(v, i) == [ok |-> TRUE, v |-> v, i |-> i]

At(ts, i) == IF i <= Len(ts) THEN ts[i] ELSE "<end>"

RECURSIVE ParseValue(_, _)
RECURSIVE ParseMembers(_, _, _)
RECURSIVE ParseElements(_, _, _)
\* a value starting at or after position i0; .i is the position after it
ParseValue(ts, i0) ==
  LET i == SkipWs(ts, i0)
      tok == At(ts, i)
  IN CASE tok = "{" ->
            IF At(ts, SkipWs(ts, i + 1)) = "}"
            THEN Parsed(Obj(<< >>), SkipWs(ts, i + 1) + 1)
            ELSE ParseMembers(ts, i + 1, << >>)
       [] tok = "[" ->
            IF At(ts, SkipWs(ts, i + 1)) = "]"
            THEN Parsed(Arr(<< >>), SkipWs(ts, i + 1) + 1)
            ELSE ParseElements(ts, i + 1, << >>)
       [] tok = "null" -> Parsed(Null, i + 1)
       [] tok = "true" -> Parsed(Bool(TRUE), i + 1)
       [] tok = "false" -> Parsed(Bool(FALSE), i + 1)
       [] IsJsonString(tok) -> Parsed(Lit(Unquote(tok)), i + 1)
       [] IsJsonNumber(tok) -> Parsed(Num(NumberOf(tok)), i + 1)
       [] OTHER -> ParseFail

\* "key" : value , ... } with the members before in acc (a later key wins)
ParseMembers(ts, i0, acc) ==
  LET i == SkipWs(ts, i0)
      key == At(ts, i)
      colon == SkipWs(ts, i + 1)
  IN IF ~IsJsonString(key) \/ At(ts, colon) # ":" THEN ParseFail
     ELSE LET r == ParseValue(ts, colon + 1)
          IN IF ~r.ok THEN ParseFail
             ELSE LET k == SkipWs(ts, r.i)
                      members == Merge(acc, [x \in {Unquote(key)} |-> r.v])
                  IN CASE At(ts, k) = "," -> ParseMembers(ts, k + 1, members)
                       [] At(ts, k) = "}" -> Parsed(Obj(members), k + 1)
                       [] OTHER -> ParseFail

\* value , ... ] with the elements before in acc
ParseElements(ts, i0, acc) ==
  LET r == ParseValue(ts, i0)
  IN IF ~r.ok THEN ParseFail
     ELSE LET k == SkipWs(ts, r.i)
          IN CASE At(ts, k) = "," -> ParseElements(ts, k + 1, Append(acc, r.v))
               [] At(ts, k) = "]" -> Parsed(Arr(Append(acc, r.v)), k + 1)
               [] OTHER -> ParseFail

\* JSON.parse(text): .ok is FALSE where it throws a SyntaxError
JsonParse(ts) ==
  LET r == ParseValue(ts, 1)
  IN IF r.ok /\ SkipWs(ts, r.i) > Len(ts) THEN r ELSE ParseFail

\* raw.match(/\{[\s\S]*\}/): from the first "{" to the last "}" after it
BraceMatch(ts) ==
  LET opens == {i \in 1..Len(ts) : ts[i] = "{"}
      first == CHOOSE i \in opens : \A j \in opens : i <= j
      closes == {i \in 1..Len(ts) : ts[i] = "}" /\ i > first}
      last == CHOOSE i \in closes : \A j \in closes : j <= i
  IN IF opens = {} \/ closes = {} THEN [found |-> FALSE, ts |-> << >>]
     ELSE [found |-> TRUE, ts |-> SubSeq(ts, first, last)]

(***************************************************************************)
(* Requests, responses, outbound calls, log.                               *)
(***************************************************************************)
Idle == [ep |-> "none", pc |-> "idle", loc |-> << >>]

Response(status, body) == [status |-> status, body |-> body]

ErrorBody(msg) == Obj([error |-> msg])

Finished(s) == req[s].pc = "done"

Status(s) == resp[s][1].status

\* a slot takes a new request when it holds none
Free(s) == req[s].pc = "idle"

Call(kind) == [kind |-> kind]

\* the synchronous segment ends with res.status(..).json(..): the handler is over
Reply(s, ep, loc, r, cs, ls) ==
  /\ req' = [req EXCEPT ![s] = [ep |-> ep, pc |-> "done", loc |-> loc]]
  /\ resp' = [resp EXCEPT ![s] = Append(@, r)]
  /\ calls' = [calls EXCEPT ![s] = @ \o cs]
  /\ logs' = [logs EXCEPT ![s] = @ \o ls]

\* the synchronous segment ends at an await of the outbound call c
Await(s, ep, pc, loc, c, ls) ==
  /\ req' = [req EXCEPT ![s] = [ep |-> ep, pc |-> pc, loc |-> loc]]
  /\ calls' = [calls EXCEPT ![s] = Append(@, c)]
  /\ logs' = [logs EXCEPT ![s] = @ \o ls]
  /\ UNCHANGED resp

\* the task of a completed request ends; the slot is free again
Release(s) ==
  /\ req[s].pc = "done"
  /\ req' = [req EXCEPT ![s] = Idle]
  /\ resp' = [resp EXCEPT ![s] = << >>]
  /\ calls' = [calls EXCEPT ![s] = << >>]
  /\ logs' = [logs EXCEPT ![s] = << >>]
  /\ UNCHANGED <<config, rateLimitStore, clock>>

(***************************************************************************)
(* The rate limiter of /api/chat.                                          *)
(***************************************************************************)
RATE_LIMIT_WINDOW_MS == 60 * 1000

RATE_LIMIT_MAX == 20

MAX_MESSAGE_LENGTH == 800

\* req.headers["x-forwarded-for"] || req.socket.remoteAddress || "unknown"
ClientIp(xff, remote) == ToStr(Or(Or(xff, remote), Str(<<"unknown">>)))

\* mutant: the stored entry is not read
LoadEntryFresh(store, ip, now) == [count |-> 0, resetAt |-> now + RATE_LIMIT_WINDOW_MS]

\* rateLimitStore.get(ip) || { count: 0, resetAt: now + RATE_LIMIT_WINDOW_MS }
LoadEntry(store, ip, now) ==
  IF ip \in DOMAIN store THEN store[ip]
  ELSE [count |-> 0, resetAt |-> now + RATE_LIMIT_WINDOW_MS]

Expired(entry, now) == now > entry.resetAt

\* mutant: the call is not counted
NextEntryUncounted(store, ip, now) ==
  LET entry == LoadEntry(store, ip, now)
  IN IF Expired(entry, now)
     THEN [count |-> 0, resetAt |-> now + RATE_LIMIT_WINDOW_MS]
     ELSE entry

\* the entry after the window test and the increment
NextEntry(store, ip, now) ==
  LET entry == LoadEntry(store, ip, now)
      fresh == IF Expired(entry, now)
               THEN [count |-> 0, resetAt |-> now + RATE_LIMIT_WINDOW_MS]
               ELSE entry
  IN [fresh EXCEPT !.count = @ + 1]

\* rateLimitStore.set(ip, entry)
StoreSet(store, ip, entry) ==
  [k \in DOMAIN store \cup {ip} |-> IF k = ip THEN entry ELSE store[k]]

\* mutant: the limit is reached one call early
DeniedAtLimit(entry) == entry.count >= RATE_LIMIT_MAX

Denied(entry) == entry.count > RATE_LIMIT_MAX

\* String(req.body?.message || "").trim()
ChatMessage(msg) == Trim(ToStr(Or(msg, EmptyStr)))

\* mutant: no message is too long
TooLongNever(message) == FALSE

TooLong(message) == Len(message) > MAX_MESSAGE_LENGTH

\* Date.now() advances between two events
Instants == {k * RATE_LIMIT_WINDOW_MS + j : k \in 0..MaxWindows, j \in 0..1}

Tick ==
  /\ \E t \in Instants : t > clock /\ clock' = t
  /\ UNCHANGED <<config, rateLimitStore, req, resp, calls, logs>>

\* POST /api/chat up to the await of openai.responses.create
ChatStart(s, xff, remote, msg) ==
  /\ Free(s)
  /\ UNCHANGED <<config, clock>>
  /\ IF ~openai
     THEN /\ Reply(s, "chat", [ip |-> ClientIp(xff, remote), limited |-> FALSE],
                   Response(500, ErrorBody(Lit("Missing OPEN_AI_KEY."))), << >>, << >>)
          /\ UNCHANGED rateLimitStore
     ELSE LET ip == ClientIp(xff, remote)
              entry == NextEntry(rateLimitStore, ip, clock)
              message == ChatMessage(msg)
              \* entry: the count and resetAt the request saw at line 137
              denied == [ip |-> ip, limited |-> TRUE, entry |-> entry]
              \* message exists once line 141 has run
              loc == [ip |-> ip, limited |-> TRUE, entry |-> entry, message |-> message]
          IN /\ entry.count <= MaxCount
             /\ rateLimitStore' = StoreSet(rateLimitStore, ip, entry)
             /\ IF Denied(entry)
                THEN Reply(s, "chat", denied,
                           Response(429, ErrorBody(Lit("Rate limit exceeded. Try again soon."))),
                           << >>, << >>)
                ELSE IF Len(message) = 0
                THEN Reply(s, "chat", loc,
                           Response(400, ErrorBody(Lit("Message is required."))),
                           << >>, << >>)
                ELSE IF TooLong(message)
                THEN Reply(s, "chat", loc,
                           Response(400, ErrorBody(Lit("Message is too long."))),
                           << >>, << >>)
                ELSE Await(s, "chat", "chat_ai", loc, Call("ai"), << >>)

\* what an outbound call gives: a thrown error, or a value
Thrown(message) == [ok |-> FALSE, message |-> message]

Returned(v) == [ok |-> TRUE, v |-> v]

\* what fetch gives when it does not throw: response.ok, and what response.json()
\* gives (a thrown error, or a value)
Http(ok, json) == Returned([ok |-> ok, json |-> json])

\* error?.message || fallback
ErrorMessage(out, fallback) == Or(out.message, Lit(fallback))

\* response.output_text?.trim()
OutputText(v) ==
  LET text == OptGet(v, "output_text")
  IN IF text.t = "str" THEN Str(Trim(text.s)) ELSE Undef

\* POST /api/chat from the return of openai.responses.create to the response
ChatAIReturn(s, out) ==
  /\ req[s].pc = "chat_ai"
  /\ UNCHANGED <<config, clock, rateLimitStore>>
  /\ IF out.ok
     THEN Reply(s, "chat", req[s].loc,
                Response(200, Obj([reply |-> Or(OutputText(out.v), Lit("Please try again."))])),
                << >>, << >>)
     ELSE Reply(s, "chat", req[s].loc,
                Response(500, ErrorBody(ErrorMessage(out, "Chat service error."))),
                << >>, <<"Chat error:">>)

(***************************************************************************)
(* POST /api/walkthrough.                                                  *)
(***************************************************************************)
kwEmail == <<"e","m","a","i","l">>

kwBusiness == <<"b","u","s","i","n","e","s","s">>

kwTeam == <<"t","e","a","m">>

kwBottleneck == <<"b","o","t","t","l","e","n","e","c","k">>

kwTools == <<"t","o","o","l","s">>

kwOutcome == <<"o","u","t","c","o","m","e">>

kwTimeline == <<"t","i","m","e","l","i","n","e">>

kwBudget == <<"b","u","d","g","e","t">>

\* [^\s@]
EmailChar(c) == c \notin WS /\ c # "@"

\* /[^\s@]+@[^\s@]+\.[^\s@]+/.test(s)
EmailPattern(s) ==
  \E p \in 2..Len(s), q \in 3..(Len(s) - 1) :
     /\ s[p] = "@" /\ EmailChar(s[p - 1])
     /\ q > p + 1 /\ s[q] = "."
     /\ \A x \in (p + 1)..(q - 1) : EmailChar(s[x])
     /\ EmailChar(s[q + 1])

\* String(item?.key || "").toLowerCase() === "email"
KeyIsEmail(item) == ToLower(ToStr(Or(OptGet(item, "key"), EmptyStr))) = kwEmail

\* String(item?.question || "").toLowerCase().includes("email")
QuestionMentionsEmail(item) ==
  Includes(ToLower(ToStr(Or(OptGet(item, "question"), EmptyStr))), kwEmail)

\* the email pattern tested on String(item?.answer || "")
AnswerLooksLikeEmail(item) == EmailPattern(ToStr(Or(OptGet(item, "answer"), EmptyStr)))

\* mutant: the question rule comes before the key rule
UserEmailQuestionFirst(answers) ==
  LET emailFromKey == Find(answers, KeyIsEmail)
      emailFromQuestion == Find(answers, QuestionMentionsEmail)
      emailFromAnswerPattern == Find(answers, AnswerLooksLikeEmail)
  IN Trim(ToStr(Or(Or(Or(OptGet(emailFromQuestion, "answer"),
                         OptGet(emailFromKey, "answer")),
                      OptGet(emailFromAnswerPattern, "answer")),
                   EmptyStr)))

\* the address the user summary goes to; the empty string when none is found
UserEmail(answers) ==
  LET emailFromKey == Find(answers, KeyIsEmail)
      emailFromQuestion == Find(answers, QuestionMentionsEmail)
      emailFromAnswerPattern == Find(answers, AnswerLooksLikeEmail)
  IN Trim(ToStr(Or(Or(Or(OptGet(emailFromKey, "answer"),
                         OptGet(emailFromQuestion, "answer")),
                      OptGet(emailFromAnswerPattern, "answer")),
                   EmptyStr)))

\* String(item.question || "").toLowerCase().includes(key), item an object
QuestionHas(item, key) ==
  Includes(ToLower(ToStr(Or(OptGet(item, "question"), EmptyStr))), key)

\* findAnswer(key) reads item.question of every item up to the first match:
\* it throws a TypeError when it meets null first
FindAnswerThrows(answers, key) ==
  \E i \in 1..Len(answers) :
     /\ GetThrows(answers[i])
     /\ \A j \in 1..(i - 1) : ~QuestionHas(answers[j], key)

FindAnswer(answers, key) == Find(answers, LAMBDA item : QuestionHas(item, key))

\* (findAnswer(key) || {}).answer || "unknown"
Field(answers, key) ==
  Or(OptGet(Or(FindAnswer(answers, key), Obj(<< >>)), "answer"), Lit("unknown"))

FallbackKeys ==
  <<kwBusiness, kwTeam, kwBottleneck, kwTools, kwOutcome, kwTimeline, kwBudget>>

BuildFallbackThrows(answers) ==
  \E n \in 1..Len(FallbackKeys) : FindAnswerThrows(answers, FallbackKeys[n])

\* toLower(value) of buildFallbackReport
LowerText(v) == ToLower(ToStr(Or(v, EmptyStr)))

\* mutant: the tools field is not looked at
RecommendedWithoutTools(painPoints, goals, tools) ==
  LET pain == LowerText(painPoints)
      goal == LowerText(goals)
      Has(s, w) == Includes(s, w)
      integration ==
        \/ Has(pain, <<"m","a","n","u","a","l">>)
        \/ Has(pain, <<"s","p","r","e","a","d","s","h","e","e","t">>)
      custom ==
        \/ Has(goal, <<"a","u","t","o","m","a","t","e">>)
        \/ Has(pain, <<"r","e","p","e","t","i","t","i","v","e">>)
        \/ Has(pain, <<"a","d","m","i","n">>)
      training ==
        \/ Has(goal, <<"t","r","a","i","n","i","n","g">>)
        \/ Has(pain, <<"a","d","o","p","t","i","o","n">>)
      support ==
        \/ Has(goal, <<"s","u","p","p","o","r","t">>)
        \/ Has(pain, <<"m","a","i","n","t","e","n","a","n","c","e">>)
  IN <<Lit("AI Strategy Assessment")>>
       \o (IF integration THEN <<Lit("AI Integration")>> ELSE << >>)
       \o (IF custom THEN <<Lit("Custom AI Development")>> ELSE << >>)
       \o (IF training THEN <<Lit("AI Training & Enablement")>> ELSE << >>)
       \o (IF support THEN <<Lit("Ongoing AI Support")>> ELSE << >>)

Recommended(painPoints, goals, tools) ==
  LET pain == LowerText(painPoints)
      goal == LowerText(goals)
      tool == LowerText(tools)
      Has(s, w) == Includes(s, w)
      integration ==
        \/ Has(pain, <<"m","a","n","u","a","l">>)
        \/ Has(pain, <<"s","p","r","e","a","d","s","h","e","e","t">>)
        \/ Has(tool, <<"c","r","m">>)
      custom ==
        \/ Has(goal, <<"a","u","t","o","m","a","t","e">>)
        \/ Has(pain, <<"r","e","p","e","t","i","t","i","v","e">>)
        \/ Has(pain, <<"a","d","m","i","n">>)
      training ==
        \/ Has(goal, <<"t","r","a","i","n","i","n","g">>)
        \/ Has(pain, <<"a","d","o","p","t","i","o","n">>)
      support ==
        \/ Has(goal, <<"s","u","p","p","o","r","t">>)
        \/ Has(pain, <<"m","a","i","n","t","e","n","a","n","c","e">>)
  IN <<Lit("AI Strategy Assessment")>>
       \o (IF integration THEN <<Lit("AI Integration")>> ELSE << >>)
       \o (IF custom THEN <<Lit("Custom AI Development")>> ELSE << >>)
       \o (IF training THEN <<Lit("AI Training & Enablement")>> ELSE << >>)
       \o (IF support THEN <<Lit("Ongoing AI Support")>> ELSE << >>)

\* buildFallbackReport(), where it does not throw
buildFallbackReport(answers) ==
  LET industry == Field(answers, kwBusiness)
      teamSize == Field(answers, kwTeam)
      painPoints == Field(answers, kwBottleneck)
      tools == Field(answers, kwTools)
      goals == Field(answers, kwOutcome)
      timeline == Field(answers, kwTimeline)
      budget == Field(answers, kwBudget)
  IN Obj([summary |->
            Str(<<"Based on your input, ... friction in ">> \o ToStr(industry)
                \o <<" workflows ... within your ">> \o ToStr(timeline)
                \o <<" timeline. ...">>),
          extracted |->
            Obj([industry |-> industry, team_size |-> teamSize,
                 pain_points |-> painPoints, tools |-> tools, goals |-> goals,
                 timeline |-> timeline, budget |-> budget]),
          recommended_services |-> Arr(Recommended(painPoints, goals, tools)),
          suggested_next_step |->
            Lit("Book a call to map the assessment and a 90-day execution plan.")])

NotCalled == [called |-> FALSE]

EmailCall(kind, to) == [kind |-> kind, to |-> to]

\* sendResendEmail on the outcome of its fetch: it throws when fetch throws and
\* when the response is not ok
sendResendEmail(out) ==
  IF ~out.ok THEN Thrown(out.message)
  ELSE IF out.v.ok THEN Returned(Undef)
  ELSE Thrown(Lit("Resend error: <status> <body>"))

\* sendError?.message || fallback, the empty string when the send succeeded
SendError(sent, fallback) ==
  IF sent.ok THEN EmptyStr ELSE ErrorMessage(sent, fallback)

MissingResendKey == Lit("Missing RESEND_API_KEY.")

\* res.json({ ...parsed, emailed_to, email_error, owner_notified, owner_email_error })
WalkBody(parsed, userEmail, userEmailError, internalEmailError) ==
  Obj(Merge(Spread(parsed),
            [emailed_to |-> IF Truthy(userEmailError) THEN EmptyStr ELSE Str(userEmail),
             email_error |-> userEmailError,
             owner_notified |-> Bool(~Truthy(internalEmailError)),
             owner_email_error |-> internalEmailError]))

\* the outer catch of the handler: a 500 carrying the error's message
WalkCrash(s, loc, message, ls) ==
  Reply(s, "walkthrough", loc,
        Response(500, ErrorBody(Or(message, Lit("Walkthrough service error.")))),
        << >>, ls \o <<"Walkthrough error:">>)

\* from the report to the first email send (or to the response, without a key)
Notify(s, loc, ls) ==
  IF ~resendApiKey
  THEN Reply(s, "walkthrough", loc,
             Response(200, WalkBody(loc.parsed, loc.userEmail,
                                    MissingResendKey, MissingResendKey)),
             << >>, ls)
  ELSE Await(s, "walkthrough", "walk_internal", loc,
             EmailCall("email_internal", Lit("hello@rossapplied.ai")), ls)

NullTypeError == Lit("Cannot read properties of null (reading 'question')")

\* lines 285-331 once the model's answer (or its absence) is known: err says
\* that the try block threw, v is what it parsed. Then the emails.
Report(s, loc, err, v, ls) ==
  LET afterTry == IF err THEN Undef ELSE v
      fallback == err \/ ~Truthy(afterTry) \/ ~TypeofObject(afterTry)
  IN IF fallback /\ BuildFallbackThrows(loc.answers)
     THEN WalkCrash(s, loc, NullTypeError, ls)
     ELSE \E parsed \in {IF fallback THEN buildFallbackReport(loc.answers) ELSE v} :
             Notify(s, [loc EXCEPT !.parsed = parsed], ls)

\* POST /api/walkthrough up to its first await (or to the response)
WalkStart(s, body) ==
  /\ Free(s)
  /\ UNCHANGED <<config, clock, rateLimitStore>>
  /\ LET payload == Or(body, Obj(<< >>))
         given == OptGet(payload, "answers")
         answers == IF given.t = "arr" THEN given.a ELSE << >>
         loc == [answers |-> answers, userEmail |-> UserEmail(answers),
                 parsed |-> Undef, aiOut |-> NotCalled,
                 internalOut |-> NotCalled, userOut |-> NotCalled,
                 internalEmailError |-> EmptyStr]
     IN IF Len(answers) = 0
        THEN Reply(s, "walkthrough", loc,
                   Response(400, ErrorBody(Lit("Answers are required."))), << >>, << >>)
        ELSE IF ~openai
        THEN Report(s, loc, TRUE, Undef, << >>)
        ELSE Await(s, "walkthrough", "walk_ai", loc, Call("ai"), << >>)

\* the try block of lines 289-322 on the outcome of openai.responses.create
ModelAnswer(out) ==
  IF ~out.ok THEN [err |-> TRUE, v |-> Undef]
  ELSE LET raw == OutputText(out.v)
       IN IF ~Truthy(raw) THEN [err |-> TRUE, v |-> Undef]
          ELSE LET direct == JsonParse(raw.s)
                   match == BraceMatch(raw.s)
                   again == JsonParse(match.ts)
               IN IF direct.ok THEN [err |-> FALSE, v |-> direct.v]
                  ELSE IF ~match.found THEN [err |-> TRUE, v |-> Undef]
                  ELSE IF again.ok THEN [err |-> FALSE, v |-> again.v]
                  ELSE [err |-> TRUE, v |-> Undef]

\* from the return of openai.responses.create to the next await
WalkAIReturn(s, out) ==
  /\ req[s].pc = "walk_ai"
  /\ UNCHANGED <<config, clock, rateLimitStore>>
  /\ \E m \in {ModelAnswer(out)}, loc \in {[req[s].loc EXCEPT !.aiOut = out]} :
        Report(s, loc, m.err, m.v,
               IF m.err THEN <<"Walkthrough model error:">> ELSE << >>)

\* mutant: the user-facing send is never attempted
NoUserEmail(userEmail) == FALSE

\* if (userEmail)
HasUserEmail(userEmail) == Len(userEmail) > 0

\* from the return of the internal send to the user send (or to the response)
WalkInternalReturn(s, out) ==
  /\ req[s].pc = "walk_internal"
  /\ UNCHANGED <<config, clock, rateLimitStore>>
  /\ LET sent == sendResendEmail(out)
         internalEmailError == SendError(sent, "Internal email send failed.")
         loc == [req[s].loc EXCEPT !.internalOut = out,
                                   !.internalEmailError = internalEmailError]
         ls == IF sent.ok THEN << >> ELSE <<"Internal walkthrough email error:">>
     IN IF HasUserEmail(loc.userEmail)
        THEN Await(s, "walkthrough", "walk_user", loc,
                   EmailCall("email_user", Str(loc.userEmail)), ls)
        ELSE Reply(s, "walkthrough", loc,
                   Response(200, WalkBody(loc.parsed, loc.userEmail,
                                          Lit("No user email captured."),
                                          internalEmailError)),
                   << >>, ls)

\* from the return of the user send to the response
WalkUserReturn(s, out) ==
  /\ req[s].pc = "walk_user"
  /\ UNCHANGED <<config, clock, rateLimitStore>>
  /\ LET sent == sendResendEmail(out)
         userEmailError == SendError(sent, "User email send failed.")
         loc == [req[s].loc EXCEPT !.userOut = out]
         ls == IF sent.ok THEN << >> ELSE <<"User walkthrough email error:">>
     IN Reply(s, "walkthrough", loc,
              Response(200, WalkBody(loc.parsed, loc.userEmail, userEmailError,
                                     loc.internalEmailError)),
              << >>, ls)

(***************************************************************************)
(* Time zones, the window of hours, the slots.                             *)
(***************************************************************************)
NewYork == <<"A","m","e","r","i","c","a","/","N","e","w","_","Y","o","r","k">>

Chicago == <<"A","m","e","r","i","c","a","/","C","h","i","c","a","g","o">>

Denver == <<"A","m","e","r","i","c","a","/","D","e","n","v","e","r">>

LosAngeles ==
  <<"A","m","e","r","i","c","a","/","L","o","s","_","A","n","g","e","l","e","s">>

Paris == <<"E","u","r","o","p","e","/","P","a","r","i","s">>

\* timezoneMap[key]: the eight aliases, and what a plain object inherits under
\* an all-lowercase name (Object.prototype.constructor, __proto__)
timezoneMap(key) ==
  CASE key \in {<<"e","s","t">>, <<"e","d","t">>} -> Str(NewYork)
    [] key \in {<<"c","s","t">>, <<"c","d","t">>} -> Str(Chicago)
    [] key \in {<<"m","s","t">>, <<"m","d","t">>} -> Str(Denver)
    [] key \in {<<"p","s","t">>, <<"p","d","t">>} -> Str(LosAngeles)
    [] key = <<"c","o","n","s","t","r","u","c","t","o","r">> -> [t |-> "fn"]
    [] key = <<"_","_","p","r","o","t","o","_","_">> -> Obj(<< >>)
    [] OTHER -> Undef

normalizeTimezone(input) ==
  IF ~Truthy(input) THEN Str(Chicago)
  ELSE Or(timezoneMap(ToLower(Trim(ToStr(input)))), input)

DigitChars == <<"0","1","2","3","4","5","6","7","8","9">>

IsDigit(c) == \E d \in 1..10 : DigitChars[d] = c

DigitValue(c) == (CHOOSE d \in 1..10 : DigitChars[d] = c) - 1

\* Number(text) of one or two digits
NumberOfDigits(ds) ==
  IF Len(ds) = 1 THEN DigitValue(ds[1]) ELSE 10 * DigitValue(ds[1]) + DigitValue(ds[2])

\* the digits \d{1,2} takes at position i: two when it can
DigitsAt(s, i) ==
  IF i + 1 <= Len(s) /\ IsDigit(s[i + 1]) THEN SubSeq(s, i, i + 1) ELSE SubSeq(s, i, i)

\* /(\d{1,2})\s*-\s*(\d{1,2})/ tried at position i
WindowMatchAt(s, i) ==
  IF i > Len(s) \/ ~IsDigit(s[i]) THEN [found |-> FALSE]
  ELSE LET first == DigitsAt(s, i)
           dash == SkipWs(s, i + Len(first))
           j == SkipWs(s, dash + 1)
       IN IF dash <= Len(s) /\ s[dash] = "-" /\ j <= Len(s) /\ IsDigit(s[j])
          THEN [found |-> TRUE, first |-> first, second |-> DigitsAt(s, j)]
          ELSE [found |-> FALSE]

\* String(input).match(...): the leftmost match
WindowMatch(s) ==
  LET at == {i \in 1..Len(s) : WindowMatchAt(s, i).found}
  IN IF at = {} THEN [found |-> FALSE]
     ELSE WindowMatchAt(s, CHOOSE i \in at : \A j \in at : i <= j)

NoWindow == [none |-> TRUE]

Window(start, end) == [none |-> FALSE, start |-> start, end |-> end]

\* mutant: the range of the hours is not tested
parseWindowUnchecked(input) ==
  IF ~Truthy(input) THEN NoWindow
  ELSE LET match == WindowMatch(ToStr(input))
       IN IF ~match.found THEN NoWindow
          ELSE LET start == NumberOfDigits(match.first)
                   parsedEnd == NumberOfDigits(match.second)
               IN Window(start, IF parsedEnd <= start /\ start < 12
                                THEN parsedEnd + 12 ELSE parsedEnd)

\* mutant: the end is never moved to the afternoon
parseWindowUncorrected(input) ==
  IF ~Truthy(input) THEN NoWindow
  ELSE LET match == WindowMatch(ToStr(input))
       IN IF ~match.found THEN NoWindow
          ELSE LET start == NumberOfDigits(match.first)
                   end == NumberOfDigits(match.second)
               IN IF start < 0 \/ start > 23 \/ end < 1 \/ end > 24 THEN NoWindow
                  ELSE Window(start, end)

parseWindow(input) ==
  IF ~Truthy(input) THEN NoWindow
  ELSE LET match == WindowMatch(ToStr(input))
       IN IF ~match.found THEN NoWindow
          ELSE LET start == NumberOfDigits(match.first)
                   parsedEnd == NumberOfDigits(match.second)
                   end == IF parsedEnd <= start /\ start < 12
                          THEN parsedEnd + 12 ELSE parsedEnd
               IN IF start < 0 \/ start > 23 \/ end < 1 \/ end > 24 THEN NoWindow
                  ELSE Window(start, end)

\* an instant as the calendar gives it: the hour of the day in UTC, and whether
\* daylight saving time is in force in the zones that have it
Instant(h, dst) == [t |-> "instant", h |-> h, dst |-> dst]

\* new Date(iso) is a valid date
ValidDate(iso) == iso.t = "instant"

\* the zones Intl.DateTimeFormat knows (their names match in any letter case)
KnownZones == {NewYork, Chicago, Denver, LosAngeles, Paris, <<"U","T","C">>}

LowerZones == [z \in KnownZones |-> ToLower(z)]

\* the zone a name denotes, the empty name when it denotes none
ZoneOf(timezone) ==
  LET low == ToLower(ToStr(timezone))
  IN IF \E z \in KnownZones : LowerZones[z] = low
     THEN CHOOSE z \in KnownZones : LowerZones[z] = low
     ELSE << >>

UtcOffset(zone, dst) ==
  (CASE zone = NewYork -> -5
     [] zone = Chicago -> -6
     [] zone = Denver -> -7
     [] zone = LosAngeles -> -8
     [] zone = Paris -> 1
     [] OTHER -> 0)
  + (IF dst /\ zone # <<"U","T","C">> THEN 1 ELSE 0)

\* the hour of the day of a valid date in a known zone
LocalHour(iso, zone) == (iso.h + UtcOffset(zone, iso.dst) + 24) % 24

\* formatting a date fails: new Date(iso) is invalid, or the zone is unknown and
\* new Intl.DateTimeFormat throws a RangeError
FormatThrows(iso, zone) == ~ValidDate(iso) \/ zone = << >>

\* the hour part printed with hour12: false; midnight is what the runtime's
\* formatter prints for hour 0 (0 or 24)
HourPart(iso, zone, midnight) ==
  LET h == LocalHour(iso, zone) IN IF h = 0 THEN midnight ELSE h

slotMatchesWindow(iso, timezone, window, midnight) ==
  LET zone == ZoneOf(timezone)
  IN IF window.none THEN TRUE
     ELSE IF FormatThrows(iso, zone) THEN TRUE
     ELSE LET hour == HourPart(iso, zone, midnight)
          IN hour >= window.start /\ hour < window.end

formatSlotLabel(iso, timezone) ==
  LET zone == ZoneOf(timezone)
  IN IF FormatThrows(iso, zone) THEN iso
     ELSE Str(<<"<weekday, month day> ">> \o Digits(LocalHour(iso, zone))
              \o <<":00 (">> \o ToStr(timezone) \o <<")">>)

(***************************************************************************)
(* POST /api/schedule.                                                     *)
(***************************************************************************)
\* mutant: the field is not trimmed
BodyTextUntrimmed(body, field) == ToStr(Or(OptGet(body, field), EmptyStr))

\* String(req.body?.field || "").trim()
BodyText(body, field) == Trim(ToStr(Or(OptGet(body, field), EmptyStr)))

kwIntro == <<"i","n","t","r","o">>

\* the texts new Date(text) reads as a date
DateTexts == {<<"2026-11-05T09:00:00Z">>}

\* Array.isArray(data?.collection) ? data.collection : []
Collection(data) ==
  LET c == OptGet(data, "collection")
  IN IF c.t = "arr" THEN c.a ELSE << >>

\* String(evt?.name || "").toLowerCase().includes("intro")
IsIntro(evt) == Includes(ToLower(ToStr(Or(OptGet(evt, "name"), EmptyStr))), kwIntro)

\* mutant: the first event type whatever its name
SelectedFirst(eventTypes) == eventTypes[1]

\* preferred || eventTypes[0]
SelectedEventType(eventTypes) == Or(Find(eventTypes, IsIntro), eventTypes[1])

\* mutant: the catch swallows the error and answers with an empty list
SchedCrashSwallowed(s, loc) ==
  Reply(s, "schedule", loc,
        Response(200, Obj([suggestions |-> Arr(<< >>)])), << >>, << >>)

\* the catch of the handler: a 500 that says nothing of the error
SchedCrash(s, loc) ==
  Reply(s, "schedule", loc,
        Response(500, ErrorBody(Lit("Schedule service error."))), << >>, << >>)

\* mutant: the failure is answered as a validation error
SchedFailAsBadRequest(s, loc, message) ==
  Reply(s, "schedule", loc, Response(400, ErrorBody(Lit(message))), << >>, << >>)

SchedFail(s, loc, message) ==
  Reply(s, "schedule", loc, Response(500, ErrorBody(Lit(message))), << >>, << >>)

\* POST /api/schedule up to the await of the identity lookup
SchedStart(s, body) ==
  /\ Free(s)
  /\ UNCHANGED <<config, clock, rateLimitStore>>
  /\ LET name == BodyText(body, "name")
         email == BodyText(body, "email")
         goals == BodyText(body, "goals")
         times == BodyText(body, "times")
         loc == [body |-> body, times |-> times,
                 timezone |-> normalizeTimezone(OptGet(body, "timezone")),
                 startAfter |-> BodyText(body, "startAfter"),
                 eventTypes |-> << >>, eventTypeUri |-> Undef,
                 slots |-> << >>, midnight |-> 0,
                 userOut |-> NotCalled, eventsOut |-> NotCalled,
                 availOut |-> NotCalled]
     IN IF ~calendlyToken
        THEN SchedFail(s, [loc EXCEPT !.timezone = Undef], "Missing CALENDLY_API.")
        ELSE IF Len(name) = 0 \/ Len(email) = 0 \/ Len(goals) = 0 \/ Len(times) = 0
        THEN Reply(s, "schedule", loc,
                   Response(400, ErrorBody(Lit("Missing required fields."))), << >>, << >>)
        ELSE Await(s, "schedule", "sched_user", loc, Call("calendar_user"), << >>)

\* from the return of GET /users/me to the await of the event types
SchedUserReturn(s, out) ==
  /\ req[s].pc = "sched_user"
  /\ UNCHANGED <<config, clock, rateLimitStore>>
  /\ LET loc == [req[s].loc EXCEPT !.userOut = out]
     IN IF ~out.ok THEN SchedCrash(s, loc)
        ELSE IF ~out.v.ok THEN SchedFail(s, loc, "Calendly user lookup failed.")
        ELSE IF ~out.v.json.ok THEN SchedCrash(s, loc)
        ELSE IF ~Truthy(OptGet(OptGet(out.v.json.v, "resource"), "uri"))
        THEN SchedFail(s, loc, "Calendly user not found.")
        ELSE Await(s, "schedule", "sched_events", loc, Call("calendar_event_types"), << >>)

\* from the return of GET /event_types to the await of the available times
SchedEventsReturn(s, out) ==
  /\ req[s].pc = "sched_events"
  /\ UNCHANGED <<config, clock, rateLimitStore>>
  /\ LET held == [req[s].loc EXCEPT !.eventsOut = out]
     IN IF ~out.ok THEN SchedCrash(s, held)
        ELSE IF ~out.v.ok THEN SchedFail(s, held, "Calendly event types lookup failed.")
        ELSE IF ~out.v.json.ok THEN SchedCrash(s, held)
        ELSE LET eventTypes == Collection(out.v.json.v)
                 loc == [held EXCEPT !.eventTypes = eventTypes]
             IN IF Len(eventTypes) = 0
                THEN SchedFail(s, loc, "No Calendly event types found.")
                ELSE LET eventTypeUri == OptGet(SelectedEventType(eventTypes), "uri")
                     IN IF ~Truthy(eventTypeUri)
                        THEN SchedFail(s, loc, "Calendly event type URI missing.")
                        \* start.toISOString() throws on an invalid date
                        ELSE IF Len(loc.startAfter) > 0 /\ loc.startAfter \notin DateTexts
                        THEN SchedCrash(s, [loc EXCEPT !.eventTypeUri = eventTypeUri])
                        ELSE Await(s, "schedule", "sched_avail",
                                   [loc EXCEPT !.eventTypeUri = eventTypeUri],
                                   Call("calendar_available_times"), << >>)

SUGGESTION_LIMIT == 3

\* mutant: the window filter is left out
SuggestionsUnfiltered(slots, timezone, window, midnight) ==
  LET kept == SubSeq(slots, 1, IF Len(slots) < 3 THEN Len(slots) ELSE 3)
  IN [i \in 1..Len(kept) |->
        Obj([start_time |-> OptGet(kept[i], "start_time"),
             end_time |-> OptGet(kept[i], "end_time"),
             label |-> formatSlotLabel(OptGet(kept[i], "start_time"), timezone)])]

\* mutant: the list is not cut to three
SuggestionsUncapped(slots, timezone, window, midnight) ==
  LET Matches(slot) ==
        slotMatchesWindow(OptGet(slot, "start_time"), timezone, window, midnight)
      kept == SelectSeq(slots, Matches)
  IN [i \in 1..Len(kept) |->
        Obj([start_time |-> OptGet(kept[i], "start_time"),
             end_time |-> OptGet(kept[i], "end_time"),
             label |-> formatSlotLabel(OptGet(kept[i], "start_time"), timezone)])]

\* slots.filter(..).slice(0, 3).map(..), where no slot is null
Suggestions(slots, timezone, window, midnight) ==
  LET Matches(slot) ==
        slotMatchesWindow(OptGet(slot, "start_time"), timezone, window, midnight)
      filtered == SelectSeq(slots, Matches)
      kept == SubSeq(filtered, 1, IF Len(filtered) < SUGGESTION_LIMIT
                                  THEN Len(filtered) ELSE SUGGESTION_LIMIT)
  IN [i \in 1..Len(kept) |->
        Obj([start_time |-> OptGet(kept[i], "start_time"),
             end_time |-> OptGet(kept[i], "end_time"),
             label |-> formatSlotLabel(OptGet(kept[i], "start_time"), timezone)])]

\* from the return of GET /event_type_available_times to the response
SchedAvailReturn(s, out, midnight) ==
  /\ req[s].pc = "sched_avail"
  /\ UNCHANGED <<config, clock, rateLimitStore>>
  /\ LET held == [req[s].loc EXCEPT !.availOut = out, !.midnight = midnight]
     IN IF ~out.ok THEN SchedCrash(s, held)
        ELSE IF ~out.v.ok THEN SchedFail(s, held, "Calendly availability lookup failed.")
        ELSE IF ~out.v.json.ok THEN SchedCrash(s, held)
        ELSE LET slots == Collection(out.v.json.v)
                 loc == [held EXCEPT !.slots = slots]
                 window == parseWindow(Str(loc.times))
                 filtered == Suggestions(slots, loc.timezone, window, midnight)
             IN \* slot.start_time throws a TypeError on a null slot
                IF \E i \in 1..Len(slots) : GetThrows(slots[i]) THEN SchedCrash(s, loc)
                ELSE Reply(s, "schedule", loc,
                           Response(200,
                             Obj([suggestions |-> Arr(filtered),
                                  eventTypeUri |-> loc.eventTypeUri,
                                  summary |->
                                    IF Len(filtered) > 0
                                    THEN Lit("Here are a few available times.")
                                    ELSE Lit("No available times matched. Try a different window or timezone.")])),
                           << >>, << >>)

(***************************************************************************)
(* POST /api/schedule/confirm.                                             *)
(***************************************************************************)
\* eventTypeUri.split("/").pop()
LastSegment(uri) ==
  LET slashes == {i \in 1..Len(uri) : uri[i] = "/"}
  IN IF slashes = {} THEN uri
     ELSE SubSeq(uri, (CHOOSE i \in slashes : \A j \in slashes : j <= i) + 1, Len(uri))

\* mutant: the catch ends the handler without a response
ConfirmCrashUnanswered(s, loc) ==
  /\ req' = [req EXCEPT ![s] = [ep |-> "confirm", pc |-> "done", loc |-> loc]]
  /\ UNCHANGED <<resp, calls, logs>>

ConfirmCrash(s, loc) ==
  Reply(s, "confirm", loc,
        Response(500, ErrorBody(Lit("Schedule confirmation failed."))), << >>, << >>)

\* mutant: a refused booking is answered as a booking
BookingFailedAsBooked(s, loc) ==
  Reply(s, "confirm", loc,
        Response(200, Obj([summary |-> Lit("You're booked! A confirmation email is on the way."),
                           rescheduleUrl |-> Undef, cancelUrl |-> Undef])), << >>, << >>)

\* if (!inviteeResp.ok)
BookingFailed(s, loc) ==
  Reply(s, "confirm", loc,
        Response(500, ErrorBody(Lit("Calendly booking failed."))), << >>, << >>)

\* the invitee payload: the location only when the lookup gave one
InviteeCall(loc, locationPayload) ==
  [kind |-> "calendar_invitee",
   payload |-> Merge([event_type |-> Str(loc.eventTypeUri),
                      start_time |-> Str(loc.startTime),
                      invitee |-> Obj([name |-> Str(loc.name), email |-> Str(loc.email),
                                       timezone |-> loc.timezone])],
                     IF locationPayload = Undef THEN << >>
                     ELSE [location |-> locationPayload])]

\* POST /api/schedule/confirm up to its first await
ConfirmStart(s, body) ==
  /\ Free(s)
  /\ UNCHANGED <<config, clock, rateLimitStore>>
  /\ LET loc == [body |-> body, name |-> BodyText(body, "name"),
                 email |-> BodyText(body, "email"),
                 timezone |-> normalizeTimezone(OptGet(body, "timezone")),
                 eventTypeUri |-> BodyText(body, "eventTypeUri"),
                 startTime |-> BodyText(body, "startTime"),
                 locationOut |-> NotCalled, inviteeOut |-> NotCalled]
     IN IF ~calendlyToken
        THEN Reply(s, "confirm", [loc EXCEPT !.timezone = Undef],
                   Response(500, ErrorBody(Lit("Missing CALENDLY_API."))), << >>, << >>)
        ELSE IF \/ Len(loc.name) = 0 \/ Len(loc.email) = 0
                \/ Len(loc.eventTypeUri) = 0 \/ Len(loc.startTime) = 0
        THEN Reply(s, "confirm", loc,
                   Response(400, ErrorBody(Lit("Missing required fields."))), << >>, << >>)
        ELSE IF Len(LastSegment(loc.eventTypeUri)) > 0
        THEN Await(s, "confirm", "confirm_location", loc, Call("calendar_event_type"), << >>)
        ELSE Await(s, "confirm", "confirm_invitee", loc, InviteeCall(loc, Undef), << >>)

\* the location payload the event type gives, undefined when it gives none
LocationPayload(data) ==
  LET location == OptGet(OptGet(data, "resource"), "location")
  IN IF ~Truthy(OptGet(location, "kind")) THEN Undef
     ELSE Obj(Merge([kind |-> OptGet(location, "kind")],
                    IF Truthy(OptGet(location, "location"))
                    THEN [location |-> OptGet(location, "location")] ELSE << >>))

\* from the return of GET /event_types/:id to the await of POST /invitees
ConfirmLocationReturn(s, out) ==
  /\ req[s].pc = "confirm_location"
  /\ UNCHANGED <<config, clock, rateLimitStore>>
  /\ LET loc == [req[s].loc EXCEPT !.locationOut = out]
     IN IF ~out.ok THEN ConfirmCrash(s, loc)
        ELSE IF ~out.v.ok
        THEN Await(s, "confirm", "confirm_invitee", loc, InviteeCall(loc, Undef), << >>)
        ELSE IF ~out.v.json.ok THEN ConfirmCrash(s, loc)
        ELSE Await(s, "confirm", "confirm_invitee", loc,
                   InviteeCall(loc, LocationPayload(out.v.json.v)), << >>)

\* from the return of POST /invitees to the response
ConfirmInviteeReturn(s, out) ==
  /\ req[s].pc = "confirm_invitee"
  /\ UNCHANGED <<config, clock, rateLimitStore>>
  /\ LET loc == [req[s].loc EXCEPT !.inviteeOut = out]
     IN IF ~out.ok THEN ConfirmCrash(s, loc)
        ELSE IF ~out.v.ok
        THEN BookingFailed(s, loc)
        ELSE IF ~out.v.json.ok THEN ConfirmCrash(s, loc)
        ELSE Reply(s, "confirm", loc,
                   Response(200,
                     Obj([summary |-> Lit("You're booked! A confirmation email is on the way."),
                          rescheduleUrl |->
                            OptGet(OptGet(out.v.json.v, "resource"), "reschedule_url"),
                          cancelUrl |->
                            OptGet(OptGet(out.v.json.v, "resource"), "cancel_url")])),
                   << >>, << >>)

(***************************************************************************)
(* Inputs of the model.                                                    *)
(***************************************************************************)
IpA == Str(<<"1","0",".","0",".","0",".","1">>)

IpB == Str(<<"1","0",".","0",".","0",".","2">>)

\* req.body?.message: absent, blank, short, at the limit, over the limit
Messages ==
  { Undef, EmptyStr, Str(<<" ", "\n">>), Str(<<" ", "h", "i", " ">>), Num(0), Num(42),
    Str(Repeat("x", MAX_MESSAGE_LENGTH)),
    Str(<<" ">> \o Repeat("x", MAX_MESSAGE_LENGTH) \o <<" ">>),
    Str(Repeat("x", MAX_MESSAGE_LENGTH + 1)) }

\* the outcomes of openai.responses.create for /api/chat
ChatOutcomes ==
  { Thrown(Lit("401 Incorrect API key provided")), Thrown(Undef), Thrown(EmptyStr),
    Returned(Obj([output_text |-> Str(<<" ", "H", "i", "!", " ">>)])),
    Returned(Obj([output_text |-> Str(<<" ">>)])),
    Returned(Obj(<< >>)) }

\* walkthrough answers: their questions carry the keywords the fallback looks for
ItemBusiness ==
  Obj([key |-> Str(<<"q","1">>),
       question |-> Str(<<"Y","o","u","r"," ","B","u","s","i","n","e","s","s","?">>),
       answer |-> Str(<<"R","e","t","a","i","l">>)])

ItemEmail ==
  Obj([key |-> Str(<<"E","m","a","i","l">>),
       question |-> Str(<<"C","o","n","t","a","c","t","?">>),
       answer |-> Str(<<" ","a","@","b",".","c","o"," ">>)])

ItemPattern == Obj([answer |-> Str(<<"x","@","y",".","i","o">>)])

ItemTimeline ==
  Obj([question |-> Str(<<"T","i","m","e","l","i","n","e","?">>), answer |-> Num(12)])

ItemAllKeys ==
  Obj([question |->
         Str(kwBusiness \o <<" ">> \o kwTeam \o <<" ">> \o kwBottleneck \o <<" ">>
             \o kwTools \o <<" ">> \o kwOutcome \o <<" ">> \o kwTimeline \o <<" ">>
             \o kwBudget),
       answer |-> Str(<<"m","a","n","u","a","l"," ","c","r","m">>)])

ItemAsk ==
  Obj([question |-> Str(<<"Y","o","u","r"," ","E","m","a","i","l","?">>),
       answer |-> Str(<<"c","@","d",".","e","e">>)])

ItemBlank == Obj([key |-> Str(kwEmail), answer |-> EmptyStr])

AnswerItems ==
  {ItemBusiness, ItemEmail, ItemPattern, ItemTimeline, ItemAllKeys, ItemAsk, ItemBlank, Null}

Lists(S, n) == UNION {[1..k -> S] : k \in 0..n}

\* req.body of /api/walkthrough, the lists up to length n
WalkBodies(n) ==
  {Undef, Obj(<< >>), Obj([answers |-> Str(<<"a">>)]), Obj([answers |-> Obj(<< >>)])}
    \cup {Obj([answers |-> Arr(a)]) : a \in Lists(AnswerItems, n)}

ExtractedTokens ==
  <<"{", "\"industry\"", ":", "\"Retail\"", ",", "\"team_size\"", ":", "\"unknown\"", ",",
    "\"pain_points\"", ":", "\"unknown\"", ",", "\"tools\"", ":", "\"unknown\"", ",",
    "\"goals\"", ":", "\"unknown\"", ",", "\"timeline\"", ":", "\"unknown\"", ",",
    "\"budget\"", ":", "\"unknown\"", "}">>

ReportTokens(extracted) ==
  <<"{", "\"summary\"", ":", "\"We can help.\"", ",", "\"extracted\"", ":">>
    \o extracted
    \o <<",", " ", "\"recommended_services\"", ":", "[", "\"AI Integration\"", "]", ",",
         "\"suggested_next_step\"", ":", "\"Book a call.\"", "}">>

\* texts the model may answer with
ModelTexts ==
  { ReportTokens(ExtractedTokens),
    <<"Here", " ", "is", " ", "the", " ", "JSON:", "\n">> \o ReportTokens(ExtractedTokens),
    ReportTokens(<<"{", "\"industry\"", ":", "\"Retail\"", "}">>),
    ReportTokens(<<"{", "\"industry\"", ":", "\"Retail\"", ",", "\"team_size\"", ":", "12",
                   ",", "\"pain_points\"", ":", "null", ",", "\"tools\"", ":", "\"unknown\"",
                   ",", "\"goals\"", ":", "\"unknown\"", ",", "\"timeline\"", ":",
                   "\"unknown\"", ",", "\"budget\"", ":", "\"unknown\"", "}">>),
    <<"{", "\"summary\"", ":", "\"We can help.\"", "}">>,
    <<"[", "\"AI Integration\"", "]">>,
    <<"\"We can help.\"">>,
    <<"null">>,
    <<"Sorry,", " ", "no.">>,
    <<"{", "oops", "}">>,
    <<"{", "}", " ", "{", "}">>,
    <<" ", "\n">> }

\* the outcomes of openai.responses.create for /api/walkthrough
WalkOutcomes ==
  {Thrown(Lit("429 You exceeded your current quota")), Returned(Obj(<< >>))}
    \cup {Returned(Obj([output_text |-> Str(text)])) : text \in ModelTexts}

\* the outcomes of the fetch of sendResendEmail
EmailOutcomes ==
  { Thrown(Lit("fetch failed")), Thrown(EmptyStr),
    Http(TRUE, Returned(Obj(<< >>))),
    Http(FALSE, Returned(Obj(<< >>))) }

TextName == Str(<<"A","n","n">>)

TextEmail == Str(<<"a","@","b",".","c","o">>)

TextGoals == Str(<<"g","r","o","w">>)

TextNineToFive == Str(<<"9","-","5">>)

SchedBase ==
  [name |-> TextName, email |-> TextEmail, goals |-> TextGoals, times |-> TextNineToFive]

\* req.body of /api/schedule
SchedBodies ==
  { Undef,
    Obj(SchedBase),
    Obj([name |-> TextName, email |-> TextEmail, goals |-> TextGoals]),
    Obj([SchedBase EXCEPT !.times = Str(<<" ", " ">>)]),
    Obj([SchedBase EXCEPT !.times = Num(0)]),
    Obj([SchedBase EXCEPT !.name = EmptyStr]),
    Obj([email |-> TextEmail, goals |-> TextGoals]),
    Obj([SchedBase EXCEPT !.times = Str(<<"m","o","r","n","i","n","g","s">>)]),
    Obj(Merge(SchedBase, [timezone |-> Str(<<"p","s","t">>),
                          startAfter |-> Str(<<"2026-11-05T09:00:00Z">>)])),
    Obj(Merge(SchedBase, [timezone |-> Str(<<"M","a","r","s">>)])),
    Obj(Merge(SchedBase, [startAfter |-> Str(<<"s","o","o","n">>)])) }

UriUser == Lit("https://api.calendly.com/users/U1")

UriIntro == Lit("https://api.calendly.com/event_types/E1")

UriOther == Lit("https://api.calendly.com/event_types/E2")

\* a fetch that throws, answers with a failure status, or answers with a body
\* that is not JSON
BrokenOutcomes ==
  { Thrown(Lit("fetch failed")), Http(FALSE, Returned(Obj(<< >>))),
    Http(TRUE, Thrown(Lit("Unexpected token < in JSON"))) }

\* the outcomes of GET /users/me
UserOutcomes ==
  BrokenOutcomes
    \cup { Http(TRUE, Returned(Obj([resource |-> Obj([uri |-> UriUser])]))),
           Http(TRUE, Returned(Obj(<< >>))) }

EventIntro == Obj([name |-> Str(<<"I","n","t","r","o"," ","C","a","l","l">>), uri |-> UriIntro])

EventOther == Obj([name |-> Str(<<"D","e","e","p"," ","D","i","v","e">>), uri |-> UriOther])

EventUpper ==
  Obj([name |-> Str(<<"3","0"," ","M","I","N"," ","I","N","T","R","O">>),
       uri |-> Lit("https://api.calendly.com/event_types/E3")])

\* the outcomes of GET /event_types
EventsOutcomes ==
  BrokenOutcomes
    \cup { Http(TRUE, Returned(Obj([collection |-> Arr(c)]))) :
             c \in { << >>, <<EventIntro>>, <<EventOther, EventIntro>>, <<EventOther>>,
                     <<EventOther, EventUpper, EventIntro>>,
                     <<Obj([name |-> Str(kwIntro)])>>, <<Null, EventIntro>> } }
    \cup { Http(TRUE, Returned(Obj(<< >>))) }

Slot(h) == Obj([start_time |-> Instant(h, FALSE), end_time |-> Instant((h + 1) % 24, FALSE)])

\* the outcomes of GET /event_type_available_times
AvailOutcomes ==
  BrokenOutcomes
    \cup { Http(TRUE, Returned(Obj([collection |-> Arr(c)]))) :
             c \in { << >>, <<Slot(15)>>, <<Slot(2), Slot(3)>>,
                     <<Slot(14), Slot(15), Slot(6), Slot(16), Slot(17), Slot(18)>>,
                     <<Slot(15), Null>>,
                     <<Obj([start_time |-> Str(<<"b","a","d">>)]), Slot(2)>> } }
    \cup { Http(TRUE, Returned(Obj([collection |-> Str(<<"x">>)]))) }

\* what the runtime prints for the hour of midnight with hour12: false
MidnightHours == {0, 24}

TextUri == Str(<<"h","t","t","p","s",":","/","/","c","/","e","t","/","E","1">>)

TextStart == Str(<<"2026-11-05T15:00:00Z">>)

ConfirmBase ==
  [name |-> TextName, email |-> TextEmail, eventTypeUri |-> TextUri, startTime |-> TextStart]

\* req.body of /api/schedule/confirm
ConfirmBodies ==
  { Undef,
    Obj(ConfirmBase),
    Obj(Merge(ConfirmBase, [timezone |-> Str(<<"E","S","T">>)])),
    Obj([ConfirmBase EXCEPT !.eventTypeUri = Str(<<"c","/","e","t","/">>)]),
    Obj([ConfirmBase EXCEPT !.startTime = Str(<<" ">>)]),
    Obj([name |-> TextName, email |-> TextEmail, eventTypeUri |-> TextUri]),
    Obj([ConfirmBase EXCEPT !.email = EmptyStr]) }

\* the outcomes of GET /event_types/:id
LocationOutcomes ==
  BrokenOutcomes
    \cup { Http(TRUE, Returned(Obj([resource |-> Obj([location |-> l])]))) :
             l \in { Obj([kind |-> Lit("zoom_conference")]),
                     Obj([kind |-> Lit("physical"), location |-> Lit("1 Main St")]),
                     Null } }
    \cup { Http(TRUE, Returned(Obj(<< >>))) }

\* the outcomes of POST /invitees
InviteeOutcomes ==
  BrokenOutcomes
    \cup { Http(TRUE, Returned(Obj([resource |->
                                      Obj([reschedule_url |-> Lit("https://calendly.com/r/1"),
                                           cancel_url |-> Lit("https://calendly.com/c/1")])]))),
           Http(TRUE, Returned(Obj(<< >>))) }

Slots == {1, 2}

Init ==
  /\ openai \in BOOLEAN
  /\ calendlyToken \in BOOLEAN
  /\ resendApiKey \in BOOLEAN
  /\ rateLimitStore = << >>
  /\ clock = 0
  /\ req = [s \in Slots |-> Idle]
  /\ resp = [s \in Slots |-> << >>]
  /\ calls = [s \in Slots |-> << >>]
  /\ logs = [s \in Slots |-> << >>]

(***************************************************************************)
(* /api/chat alone, one request at a time, two client addresses, with the  *)
(* clock advancing.                                                        *)
(***************************************************************************)
\* the client sends few chat requests in one window
FewCalls == 2

\* the second address makes few calls
FewFromIpA ==
  ToStr(IpA) \in DOMAIN rateLimitStore' => rateLimitStore'[ToStr(IpA)].count <= FewCalls

ChatNext ==
  \/ \E xff \in {Undef, IpA}, remote \in {IpB}, msg \in Messages :
        ChatStart(1, xff, remote, msg) /\ FewFromIpA
  \/ \E out \in ChatOutcomes : ChatAIReturn(1, out)
  \/ Release(1)
  \/ Tick

InitChat == Init /\ ~calendlyToken /\ ~resendApiKey

SpecChat == InitChat /\ [][ChatNext]_vars

(***************************************************************************)
(* /api/chat with two requests in flight: a request suspended at the AI    *)
(* call leaves the thread to the other one.                                *)
(***************************************************************************)
ChatPairNext ==
  \/ \E s \in Slots, xff \in {Undef, IpA} :
        /\ ChatStart(s, xff, IpB, Str(<<" ", "h", "i", " ">>))
        \* the second address makes one call in a window
        /\ ToStr(IpA) \in DOMAIN rateLimitStore' => rateLimitStore'[ToStr(IpA)].count <= 1
  \/ \E s \in Slots :
        ChatAIReturn(s, Returned(Obj([output_text |-> Str(<<" ", "H", "i", "!", " ">>)])))
  \/ \E s \in Slots : Release(s)
  \/ Tick

InitChatPair == InitChat /\ openai

SpecChatPair == InitChatPair /\ [][ChatPairNext]_vars

(***************************************************************************)
(* /api/walkthrough alone, one request at a time.                          *)
(***************************************************************************)
MaxAnswers == 2

WalkNext ==
  \/ \E body \in WalkBodies(MaxAnswers) : WalkStart(1, body)
  \/ \E out \in WalkOutcomes : WalkAIReturn(1, out)
  \/ \E out \in EmailOutcomes : WalkInternalReturn(1, out)
  \/ \E out \in EmailOutcomes : WalkUserReturn(1, out)
  \/ Release(1)

InitWalk == Init /\ ~calendlyToken

SpecWalk == InitWalk /\ [][WalkNext]_vars

(***************************************************************************)
(* /api/schedule and /api/schedule/confirm, one request at a time.         *)
(***************************************************************************)
SchedNext ==
  \/ \E body \in SchedBodies : SchedStart(1, body)
  \/ \E out \in UserOutcomes : SchedUserReturn(1, out)
  \/ \E out \in EventsOutcomes : SchedEventsReturn(1, out)
  \/ \E out \in AvailOutcomes, midnight \in MidnightHours : SchedAvailReturn(1, out, midnight)
  \/ \E body \in ConfirmBodies : ConfirmStart(1, body)
  \/ \E out \in LocationOutcomes : ConfirmLocationReturn(1, out)
  \/ \E out \in InviteeOutcomes : ConfirmInviteeReturn(1, out)
  \/ Release(1)

InitSched == Init /\ ~openai /\ ~resendApiKey

SpecSched == InitSched /\ [][SchedNext]_vars

(***************************************************************************)
(* The four endpoints together, one request at a time, one client address. *)
(***************************************************************************)
\* a failed call, a report as asked for, a text that is no JSON
FewWalkOutcomes ==
  { Thrown(Lit("429 You exceeded your current quota")),
    Returned(Obj([output_text |-> Str(ReportTokens(ExtractedTokens))])),
    Returned(Obj([output_text |-> Str(<<"Sorry,", " ", "no.">>)])) }

FewEmailOutcomes == {Thrown(Lit("fetch failed")), Http(TRUE, Returned(Obj(<< >>)))}

Quiet == \A ip \in DOMAIN rateLimitStore' : rateLimitStore'[ip].count <= FewCalls

Next ==
  \/ \E msg \in Messages : ChatStart(1, Undef, IpB, msg) /\ Quiet
  \/ \E out \in ChatOutcomes : ChatAIReturn(1, out)
  \/ Tick
  \/ \E body \in WalkBodies(1) : WalkStart(1, body)
  \/ \E out \in FewWalkOutcomes : WalkAIReturn(1, out)
  \/ \E out \in FewEmailOutcomes : WalkInternalReturn(1, out)
  \/ \E out \in FewEmailOutcomes : WalkUserReturn(1, out)
  \/ \E body \in SchedBodies : SchedStart(1, body)
  \/ \E out \in UserOutcomes : SchedUserReturn(1, out)
  \/ \E out \in EventsOutcomes : SchedEventsReturn(1, out)
  \/ \E out \in AvailOutcomes, midnight \in MidnightHours : SchedAvailReturn(1, out, midnight)
  \/ \E body \in ConfirmBodies : ConfirmStart(1, body)
  \/ \E out \in LocationOutcomes : ConfirmLocationReturn(1, out)
  \/ \E out \in InviteeOutcomes : ConfirmInviteeReturn(1, out)
  \/ Release(1)

Spec == Init /\ [][Next]_vars

\* an outbound call returns or throws
OutboundReturns ==
  \/ \E out \in ChatOutcomes : ChatAIReturn(1, out)
  \/ \E out \in FewWalkOutcomes : WalkAIReturn(1, out)
  \/ \E out \in FewEmailOutcomes : WalkInternalReturn(1, out)
  \/ \E out \in FewEmailOutcomes : WalkUserReturn(1, out)
  \/ \E out \in UserOutcomes : SchedUserReturn(1, out)
  \/ \E out \in EventsOutcomes : SchedEventsReturn(1, out)
  \/ \E out \in AvailOutcomes, midnight \in MidnightHours : SchedAvailReturn(1, out, midnight)
  \/ \E out \in LocationOutcomes : ConfirmLocationReturn(1, out)
  \/ \E out \in InviteeOutcomes : ConfirmInviteeReturn(1, out)

\* the server when every outbound call eventually returns or throws
SpecLive == Init /\ [][Next]_vars /\ WF_vars(OutboundReturns)

(***************************************************************************)
(* Properties.  A request arrives in the step that takes slot 1 from idle; *)
(* a response is the first element of resp[1].                             *)
(***************************************************************************)
Arrives(ep) == req[1].pc = "idle" /\ req'[1].ep = ep

Done(ep) == req[1].ep = ep /\ Finished(1)

EmailKinds == {"email_internal", "email_user"}

CallsOf(kinds) == {i \in 1..Len(calls[1]) : calls[1][i].kind \in kinds}

\* the response body holds every field of the report, with the report's value
Carries(body, report) ==
  /\ body.t = "obj" /\ report.t = "obj"
  /\ \A k \in DOMAIN report.f : k \in DOMAIN body.f /\ body.f[k] = report.f[k]

\* C1: for one client address with the AI provider configured, a call to
\* /api/chat made within the window of the address's entry (an entry exists and
\* the clock has not passed its resetAt) is answered 429 exactly when the entry
\* already counts 20 calls or more, and is counted in the entry; a call made
\* when no entry exists or after the window has elapsed is never answered 429
\* and leaves an entry that counts 1 call in a window of 60 seconds from now.
C1_RateLimiter ==
  [][ (Arrives("chat") /\ openai) =>
        LET ip == req'[1].loc.ip
            inWindow == ip \in DOMAIN rateLimitStore
                          /\ clock <= rateLimitStore[ip].resetAt
            limited == req'[1].pc = "done" /\ resp'[1][1].status = 429
        IN IF inWindow
           THEN /\ limited <=> rateLimitStore[ip].count >= 20
                /\ rateLimitStore'[ip] =
                     [rateLimitStore[ip] EXCEPT !.count = @ + 1]
           ELSE /\ ~limited
                /\ rateLimitStore'[ip] = [count |-> 1, resetAt |-> clock + 60000]
    ]_vars

\* the 21st call of a window has been answered 429
C1_Witness ==
  /\ Done("chat") /\ Status(1) = 429
  /\ rateLimitStore[req[1].loc.ip].count = 21

\* C2: a finished /api/walkthrough request was answered 400 when answers is
\* missing, not a list or empty; and when answers is non-empty and the AI
\* provider is not configured it was answered 200 with the report of
\* buildFallbackReport and without any AI call.
C2_FallbackWithoutAI ==
  Done("walkthrough") =>
    IF Len(req[1].loc.answers) = 0
    THEN Status(1) = 400
    ELSE ~openai =>
           /\ Status(1) = 200
           /\ CallsOf({"ai"}) = {}
           /\ Carries(resp[1][1].body, buildFallbackReport(req[1].loc.answers))

\* the model's answer is a failure of the extraction path
ExtractionFailed(loc) ==
  ~openai \/ (loc.aiOut # NotCalled /\ ModelAnswer(loc.aiOut).err)

\* C3: a finished /api/walkthrough request with non-empty answers whose AI
\* extraction failed (no client, a thrown call, an empty text, a text that
\* parses neither directly nor after brace extraction) was answered 200 with
\* the fallback report.
C3_FailureFallsBack ==
  (Done("walkthrough") /\ Len(req[1].loc.answers) > 0 /\ ExtractionFailed(req[1].loc)) =>
    /\ Status(1) = 200
    /\ Carries(resp[1][1].body, buildFallbackReport(req[1].loc.answers))

ExtractedKeys ==
  {"industry", "team_size", "pain_points", "tools", "goals", "timeline", "budget"}

\* C4: every 200 response of /api/walkthrough holds an extracted mapping with
\* all seven keys, each holding a string.
C4_ExtractedComplete ==
  (Done("walkthrough") /\ Status(1) = 200) =>
    LET body == resp[1][1].body.f
    IN /\ "extracted" \in DOMAIN body
       /\ body.extracted.t = "obj"
       /\ \A k \in ExtractedKeys :
            k \in DOMAIN body.extracted.f /\ body.extracted.f[k].t = "str"

\* the fetch of a send answered with a success status
Succeeded(out) == out # NotCalled /\ out.ok /\ out.v.ok

Field1(name) == resp[1][1].body.f[name]

\* C5: whatever the outcomes of the two email sends, a finished
\* /api/walkthrough request with non-empty answers was answered 200, with
\* owner_notified true exactly when the internal send succeeded, emailed_to the
\* discovered address exactly when the user send was attempted and succeeded,
\* and otherwise emailed_to empty and email_error non-empty.
C5_SendOutcomesAbsorbed ==
  (Done("walkthrough") /\ resendApiKey /\ Len(req[1].loc.answers) > 0) =>
    /\ Status(1) = 200
    /\ Field1("owner_notified") = Bool(Succeeded(req[1].loc.internalOut))
    /\ IF Succeeded(req[1].loc.userOut)
       THEN Field1("emailed_to") = Str(req[1].loc.userEmail)
       ELSE Field1("emailed_to") = EmptyStr /\ Truthy(Field1("email_error"))

\* the request has reached the notification step (a report is chosen)
Notifying == req[1].ep = "walkthrough" /\ req[1].loc.parsed # Undef

\* C6: with the email key configured, a /api/walkthrough request that has
\* reached notification has issued the internal send to the fixed recipient
\* exactly once and the user send at most once; once the internal send has
\* returned, whatever its outcome, the user send has been issued (to the
\* discovered address) exactly when a non-empty address was discovered.
C6_SendsOnce ==
  (Notifying /\ resendApiKey) =>
    /\ Cardinality(CallsOf({"email_internal"})) = 1
    /\ \A i \in CallsOf({"email_internal"}) : calls[1][i].to = Lit("hello@rossapplied.ai")
    /\ Cardinality(CallsOf({"email_user"})) <= 1
    /\ \A i \in CallsOf({"email_user"}) : calls[1][i].to = Str(req[1].loc.userEmail)
    /\ req[1].loc.internalOut # NotCalled =>
         (CallsOf({"email_user"}) # {} <=> req[1].loc.userEmail # << >>)

\* the internal send failed and the user send was still made, once
C6_Witness ==
  /\ Done("walkthrough") /\ resendApiKey /\ Status(1) = 200
  /\ req[1].loc.internalOut # NotCalled /\ ~Succeeded(req[1].loc.internalOut)
  /\ Cardinality(CallsOf({"email_user"})) = 1
  /\ Cardinality(CallsOf({"email_internal"})) = 1

\* C7: without the email key, a finished /api/walkthrough request with
\* non-empty answers issued no email send and was answered 200 with
\* owner_notified false, emailed_to empty and both error fields reporting the
\* missing key.
C7_NoKeyNoSend ==
  (Done("walkthrough") /\ ~resendApiKey /\ Len(req[1].loc.answers) > 0) =>
    /\ CallsOf(EmailKinds) = {}
    /\ Status(1) = 200
    /\ Field1("owner_notified") = Bool(FALSE)
    /\ Field1("emailed_to") = EmptyStr
    /\ Field1("owner_email_error") = Lit("Missing RESEND_API_KEY.")
    /\ Field1("email_error") = Lit("Missing RESEND_API_KEY.")

\* a field of a request body that is absent, or a text of white space only
Blank(body, field) ==
  LET v == OptGet(body, field)
  IN v = Undef \/ (v.t = "str" /\ \A i \in 1..Len(v.s) : v.s[i] \in WS)

\* C8 as stated: a finished /api/schedule request whose times is missing or
\* blank was answered 400.
C8_AsStated == (Done("schedule") /\ Blank(req[1].loc.body, "times")) => Status(1) = 400

\* C8: with the calendar token configured, a finished /api/schedule request
\* whose times is missing or blank was answered 400, and no outbound call was
\* made for it.
C8_TimesRequired ==
  (Done("schedule") /\ calendlyToken /\ Blank(req[1].loc.body, "times")) =>
    Status(1) = 400 /\ calls[1] = << >>

\* times is blank, the other fields are present, the answer is 400
C8_Witness ==
  /\ Done("schedule") /\ calendlyToken /\ Status(1) = 400
  /\ Blank(req[1].loc.body, "times") /\ OptGet(req[1].loc.body, "times") # Undef
  /\ \A f \in {"name", "email", "goals"} : ~Blank(req[1].loc.body, f)

\* a request is answered 400 in this step
Answers400 == resp[1] = << >> /\ resp'[1] # << >> /\ resp'[1][1].status = 400

\* C9 as stated: a request answered 400 has issued no outbound call and the
\* rate-limit table is the same after it as before it.
C9_AsStated ==
  [][Answers400 =>
       /\ Free(1)
       /\ calls'[1] = << >>
       /\ rateLimitStore' = rateLimitStore]_vars

\* C9: a request answered 400 is answered in the step it arrives in and has
\* issued no outbound call; /api/walkthrough, /api/schedule and
\* /api/schedule/confirm leave the rate-limit table as it was, and /api/chat
\* has counted the request in the caller's entry (and changed no other entry).
C9_NoOutboundCall ==
  [][Answers400 =>
       /\ Free(1)
       /\ calls'[1] = << >>
       /\ IF req'[1].ep # "chat" THEN rateLimitStore' = rateLimitStore
          ELSE LET ip == req'[1].loc.ip
                   before == IF ip \in DOMAIN rateLimitStore
                                  /\ clock <= rateLimitStore[ip].resetAt
                             THEN rateLimitStore[ip].count ELSE 0
               IN /\ DOMAIN rateLimitStore' = DOMAIN rateLimitStore \cup {ip}
                  /\ rateLimitStore'[ip].count = before + 1
                  /\ \A k \in DOMAIN rateLimitStore \ {ip} :
                       rateLimitStore'[k] = rateLimitStore[k]]_vars

\* a chat request was answered 400 and is counted in the table
C9_Witness ==
  /\ Done("chat") /\ Status(1) = 400
  /\ req[1].loc.ip \in DOMAIN rateLimitStore
  /\ rateLimitStore[req[1].loc.ip].count = 2

\* C10: without the AI key every /api/chat request, and without the calendar
\* token every /api/schedule and /api/schedule/confirm request, is answered 500
\* in the step it arrives in, with no outbound call issued.
C10_CredentialFirst ==
  /\ (req[1].ep = "chat" /\ ~openai) =>
       (Finished(1) /\ Status(1) = 500 /\ calls[1] = << >>)
  /\ (req[1].ep \in {"schedule", "confirm"} /\ ~calendlyToken) =>
       (Finished(1) /\ Status(1) = 500 /\ calls[1] = << >>)

\* a complete schedule request was answered 500 for the missing token
C10_Witness ==
  /\ Done("schedule") /\ ~calendlyToken /\ Status(1) = 500
  /\ \A f \in {"name", "email", "goals", "times"} : ~Blank(req[1].loc.body, f)

\* the fetch answered with a success status and a JSON body
Answered(out) == out # NotCalled /\ out.ok /\ out.v.ok /\ out.v.json.ok

\* every slot of the collection is rejected by the window filter
AllSlotsFail(loc) ==
  \A i \in 1..Len(loc.slots) :
    /\ ~GetThrows(loc.slots[i])
    /\ ~slotMatchesWindow(OptGet(loc.slots[i], "start_time"), loc.timezone,
                          parseWindow(Str(loc.times)), loc.midnight)

\* C11: a finished /api/schedule request whose event-type listing answered
\* with zero event types was answered 500 with the error "No Calendly event
\* types found." and asked for no availability; one whose availability query
\* answered with no slot, or only with slots that the window filter rejects,
\* was answered 200 with an empty suggestions list, the selected eventTypeUri
\* and the summary inviting a different window; a 200 never follows an empty
\* event-type list.
C11_EmptyOutcomes ==
  Done("schedule") =>
    LET loc == req[1].loc
    IN /\ (Answered(loc.eventsOut) /\ Collection(loc.eventsOut.v.json.v) = << >>) =>
            /\ Status(1) = 500
            /\ resp[1][1].body = ErrorBody(Lit("No Calendly event types found."))
            /\ CallsOf({"calendar_available_times"}) = {}
       /\ (Answered(loc.availOut) /\ AllSlotsFail(loc)) =>
            /\ Status(1) = 200
            /\ Field1("suggestions") = Arr(<< >>)
            /\ Field1("eventTypeUri") = loc.eventTypeUri /\ Truthy(loc.eventTypeUri)
            /\ Field1("summary") =
                 Lit("No available times matched. Try a different window or timezone.")
       /\ Status(1) = 200 => Len(loc.eventTypes) > 0

\* slots were offered, the window rejected them all, the answer is 200
C11_Witness ==
  /\ Done("schedule") /\ Status(1) = 200
  /\ Len(req[1].loc.slots) > 0 /\ AllSlotsFail(req[1].loc)
  /\ Field1("suggestions") = Arr(<< >>)

\* the lookup was made and did not succeed: the call threw, or the response
\* had a failure status
Failed(out) == out # NotCalled /\ (~out.ok \/ ~out.v.ok)

LookupOrder == <<"calendar_user", "calendar_event_types", "calendar_available_times">>

\* C12: the outbound calls of a /api/schedule request are, in this order and
\* each at most once, the identity lookup, the event-type listing and the
\* availability query; when one of them did not succeed the request was
\* answered 500 and no later lookup was issued; a 200 response implies that all
\* three succeeded.
C12_LookupOrder ==
  req[1].ep = "schedule" =>
    LET loc == req[1].loc
        n == Len(calls[1])
    IN /\ n <= 3
       /\ \A i \in 1..n : calls[1][i].kind = LookupOrder[i]
       /\ Failed(loc.userOut) => (Finished(1) /\ Status(1) = 500 /\ n = 1)
       /\ Failed(loc.eventsOut) => (Finished(1) /\ Status(1) = 500 /\ n = 2)
       /\ Failed(loc.availOut) => (Finished(1) /\ Status(1) = 500 /\ n = 3)
       /\ (Finished(1) /\ Status(1) = 200) =>
            (Succeeded(loc.userOut) /\ Succeeded(loc.eventsOut) /\ Succeeded(loc.availOut))

\* the event-type listing threw: 500 after two lookups, no availability query
C12_Witness ==
  /\ Done("schedule") /\ Status(1) = 500
  /\ Succeeded(req[1].loc.userOut)
  /\ req[1].loc.eventsOut # NotCalled /\ ~req[1].loc.eventsOut.ok
  /\ Len(calls[1]) = 2

\* the positions, in the calendar's collection, of the slots the window accepts
MatchingSlots(loc) ==
  {i \in 1..Len(loc.slots) :
     slotMatchesWindow(OptGet(loc.slots[i], "start_time"), loc.timezone,
                       parseWindow(Str(loc.times)), loc.midnight)}

\* those of them that fewer than three accepted slots precede
FirstThree(loc) ==
  {i \in MatchingSlots(loc) : Cardinality({j \in MatchingSlots(loc) : j < i}) < 3}

\* the k-th position of a set of positions, in increasing order
Nth(S, k) == CHOOSE i \in S : Cardinality({j \in S : j < i}) = k - 1

\* C13: the suggestions of a 200 response of /api/schedule are at most three
\* and are, one for one and in the calendar's order, the first three (or
\* fewer) slots of the calendar's collection that slotMatchesWindow accepts for
\* the parsed window and the resolved time zone.
C13_FirstThreeMatching ==
  (Done("schedule") /\ Status(1) = 200) =>
    LET loc == req[1].loc
        given == Field1("suggestions").a
    IN /\ Len(given) <= 3
       /\ Len(given) = Cardinality(FirstThree(loc))
       /\ \A k \in 1..Len(given) :
            LET slot == loc.slots[Nth(FirstThree(loc), k)]
            IN /\ given[k].f.start_time = OptGet(slot, "start_time")
               /\ given[k].f.end_time = OptGet(slot, "end_time")

\* more than three slots match and rejected slots stand before and between them
C13_Witness ==
  /\ Done("schedule") /\ Status(1) = 200
  /\ Len(Field1("suggestions").a) = 3
  /\ Cardinality(MatchingSlots(req[1].loc)) > 3
  /\ 1 \notin MatchingSlots(req[1].loc)
  /\ \E i \in 1..Len(req[1].loc.slots) :
       /\ i \notin MatchingSlots(req[1].loc)
       /\ \E j, k \in FirstThree(req[1].loc) : j < i /\ i < k

(***************************************************************************)
(* The helper functions parseWindow, normalizeTimezone, slotMatchesWindow   *)
(* and buildFallbackReport called on their own: the call is drawn at the   *)
(* start, one step returns.                                                *)
(***************************************************************************)
\* the numbers written in the window texts go up to MaxHour
MaxHour == 30

TwoDigits(n) == IF n < 10 THEN <<"0">> \o Digits(n) ELSE Digits(n)

\* a window text, and the pair of numbers it shows first (none: the empty pair)
WindowCase(input, pair) == [input |-> input, pair |-> pair]

DecoratedHours == {0, 1, 5, 9, 11, 12, 13, 17, 23, 24, 25}

WindowCases ==
  {WindowCase(Str(Digits(s) \o <<"-">> \o Digits(e)), <<s, e>>) : s, e \in 0..MaxHour}
    \cup {WindowCase(Str(TwoDigits(s) \o <<" ", "-", "\t">> \o TwoDigits(e)), <<s, e>>) :
            s, e \in DecoratedHours}
    \cup {WindowCase(Str(<<"f","r","o","m"," ">> \o Digits(s) \o <<"\n","-">> \o Digits(e)
                         \o <<"p","m">>), <<s, e>>) : s, e \in DecoratedHours}
    \cup { WindowCase(Str(<<"1","2","3","-","4">>), <<23, 4>>),
           WindowCase(Str(<<"9","-","1","2","3">>), <<9, 12>>),
           WindowCase(Str(<<"9","-","5"," ","o","r"," ","1","0","-","6">>), <<9, 5>>),
           WindowCase(Str(<<"1","-","-","2"," ","3","-","4">>), <<3, 4>>),
           WindowCase(Str(<<"-","9","-","5">>), <<9, 5>>),
           WindowCase(Undef, << >>), WindowCase(Null, << >>), WindowCase(EmptyStr, << >>),
           WindowCase(Num(0), << >>), WindowCase(Num(95), << >>),
           WindowCase(Str(<<"m","o","r","n","i","n","g","s">>), << >>),
           WindowCase(Str(<<"9"," ","t","o"," ","5">>), << >>),
           WindowCase(Str(<<"9","-">>), << >>), WindowCase(Str(<<"-","5">>), << >>),
           WindowCase(Str(<<"9","-","p","m">>), << >>) }

UpperChar(c) ==
  IF \E i \in 1..26 : LowerCase[i] = c
  THEN UpperCase[CHOOSE i \in 1..26 : LowerCase[i] = c] ELSE c

\* a text with the letters at the positions of caps in upper case
Cased(s, caps) == [i \in 1..Len(s) |-> IF i \in caps THEN UpperChar(s[i]) ELSE s[i]]

Aliases ==
  { <<"e","s","t">>, <<"e","d","t">>, <<"c","s","t">>, <<"c","d","t">>,
    <<"m","s","t">>, <<"m","d","t">>, <<"p","s","t">>, <<"p","d","t">> }

TimezoneInputs ==
  {Str(Cased(a, caps)) : a \in Aliases, caps \in SUBSET (1..3)}
    \cup {Str(<<" ">> \o a \o <<"\n">>) : a \in Aliases}
    \cup { Undef, Null, EmptyStr, Num(0), Num(5), Bool(TRUE), Str(<<" ">>),
           Str(Paris), Str(Chicago), Str(ToLower(NewYork)), Str(<<"U","T","C">>),
           Str(<<"M","a","r","s">>), Str(<<"e","s","t","e">>), Str(<<"g","m","t">>),
           Str(<<"c","o","n","s","t","r","u","c","t","o","r">>),
           Str(<<"C","o","n","s","t","r","u","c","t","o","r">>),
           Str(<<"_","_","p","r","o","t","o","_","_">>),
           Str(<<"t","o","s","t","r","i","n","g">>) }

SlotInstants ==
  {Instant(h, dst) : h \in 0..23, dst \in BOOLEAN} \cup {Str(<<"b","a","d">>), Undef}

SlotZones ==
  { Str(Chicago), Str(NewYork), Str(Paris), Str(ToLower(LosAngeles)),
    Str(<<"M","a","r","s">>), [t |-> "fn"] }

SlotWindows == {NoWindow, Window(9, 17), Window(0, 8), Window(13, 1), Window(22, 24)}

SlotCases ==
  [iso : SlotInstants, timezone : SlotZones, window : SlotWindows, midnight : MidnightHours]

\* answers given to the bottleneck, outcome and tools questions; Undef: the
\* question is not among the answers
FallbackTexts ==
  { Undef, EmptyStr, Num(5),
    Str(<<"M","a","n","u","a","l"," ","e","n","t","r","y">>),
    Str(<<"s","p","r","e","a","d","s","h","e","e","t","s">>),
    Str(<<"o","u","r"," ","C","R","M">>),
    Str(<<"a","u","t","o","m","a","t","e"," ","i","t">>),
    Str(<<"R","e","p","e","t","i","t","i","v","e">>),
    Str(<<"a","d","m","i","n">>),
    Str(<<"T","r","a","i","n","i","n","g">>),
    Str(<<"a","d","o","p","t","i","o","n">>),
    Str(<<"s","u","p","p","o","r","t">>),
    Str(<<"m","a","i","n","t","e","n","a","n","c","e">>) }

FallbackItem(key, answer) ==
  IF answer = Undef THEN << >>
  ELSE <<Obj([question |-> Str(<<"Y","o","u","r"," ">> \o key \o <<"?">>),
              answer |-> answer])>>

FallbackCases ==
  { [answers |-> FallbackItem(kwBottleneck, p) \o FallbackItem(kwOutcome, g)
                   \o FallbackItem(kwTools, o)] : p, g, o \in FallbackTexts }

Called(fn, args) == [ep |-> fn, pc |-> "called", loc |-> args]

InitFunctions ==
  /\ openai = FALSE /\ calendlyToken = FALSE /\ resendApiKey = FALSE
  /\ rateLimitStore = << >>
  /\ clock = 0
  /\ \/ \E c \in WindowCases : req = [s \in Slots |-> IF s = 1 THEN Called("parseWindow", c) ELSE Idle]
     \/ \E v \in TimezoneInputs :
          req = [s \in Slots |-> IF s = 1 THEN Called("normalizeTimezone", [input |-> v]) ELSE Idle]
     \/ \E c \in SlotCases :
          req = [s \in Slots |-> IF s = 1 THEN Called("slotMatchesWindow", c) ELSE Idle]
     \/ \E c \in FallbackCases :
          req = [s \in Slots |-> IF s = 1 THEN Called("buildFallbackReport", c) ELSE Idle]
  /\ resp = [s \in Slots |-> << >>]
  /\ calls = [s \in Slots |-> << >>]
  /\ logs = [s \in Slots |-> << >>]

\* the call returns: the result is kept with the arguments
Returns(fn, result) ==
  /\ req[1].ep = fn /\ req[1].pc = "called"
  /\ req' = [req EXCEPT ![1] = [ep |-> fn, pc |-> "returned",
                                loc |-> [args |-> req[1].loc, result |-> result]]]
  /\ UNCHANGED <<config, clock, rateLimitStore, resp, calls, logs>>

ParseWindowReturns == Returns("parseWindow", parseWindow(req[1].loc.input))

NormalizeTimezoneReturns == Returns("normalizeTimezone", normalizeTimezone(req[1].loc.input))

SlotMatchesWindowReturns ==
  Returns("slotMatchesWindow",
          slotMatchesWindow(req[1].loc.iso, req[1].loc.timezone,
                            req[1].loc.window, req[1].loc.midnight))

BuildFallbackReportReturns ==
  Returns("buildFallbackReport", buildFallbackReport(req[1].loc.answers))

FunctionsNext ==
  \/ ParseWindowReturns
  \/ NormalizeTimezoneReturns
  \/ SlotMatchesWindowReturns
  \/ BuildFallbackReportReturns

SpecFunctions == InitFunctions /\ [][FunctionsNext]_vars

Returned1(fn) == req[1].ep = fn /\ req[1].pc = "returned"

\* C14 as stated: every window parseWindow returns has start in 0..23, end in
\* 1..24 and end > start.
C14_AsStated ==
  (Returned1("parseWindow") /\ ~req[1].loc.result.none) =>
    LET w == req[1].loc.result
    IN w.start \in 0..23 /\ w.end \in 1..24 /\ w.end > w.start

\* C14: every window parseWindow returns has start in 0..23 and end in 1..24,
\* and end > start whenever start < 12; a window with end <= start is returned
\* only for a start of 12 or more, with the end as written in the text.
C14_WindowRange ==
  (Returned1("parseWindow") /\ ~req[1].loc.result.none) =>
    LET w == req[1].loc.result
    IN /\ w.start \in 0..23 /\ w.end \in 1..24
       /\ w.start < 12 => w.end > w.start
       /\ w.end <= w.start =>
            (w.start >= 12 /\ req[1].loc.args.pair = <<w.start, w.end>>)

\* a reversed window is returned: "13-1" gives start 13, end 1
C14_Witness ==
  /\ Returned1("parseWindow")
  /\ req[1].loc.args.input = Str(<<"1","3","-","1">>)
  /\ req[1].loc.result = Window(13, 1)

\* the window the reference gives for the first pair of numbers of a text
ReferenceWindow(pair) ==
  IF pair = << >> THEN NoWindow
  ELSE LET s == pair[1]
           e == IF pair[2] <= pair[1] /\ pair[1] < 12 THEN pair[2] + 12 ELSE pair[2]
       IN IF s \notin 0..23 \/ e \notin 1..24 THEN NoWindow
          ELSE [none |-> FALSE, start |-> s, end |-> e]

\* C15: parseWindow agrees with the reference on every text: for the first
\* pair (s, e) of one- or two-digit numbers written "s-e", with e' = e + 12
\* when e <= s and s < 12 and e' = e otherwise, the result is none when s is
\* outside 0..23 or e' outside 1..24 and is {start: s, end: e'} otherwise; a
\* text without such a pair gives none.
C15_ParseWindowReference ==
  Returned1("parseWindow") => req[1].loc.result = ReferenceWindow(req[1].loc.args.pair)

\* "9-5" written with spaces and leading zeros gives start 9, end 17
C15_Witness ==
  /\ Returned1("parseWindow")
  /\ req[1].loc.args.input = Str(<<"0","9"," ","-","\t","0","5">>)
  /\ req[1].loc.result = Window(9, 17)

\* the zone the spec's table gives for an alias in lower case
AliasZone(a) ==
  CASE a[1] = "e" -> NewYork
    [] a[1] = "c" -> Chicago
    [] a[1] = "m" -> Denver
    [] a[1] = "p" -> LosAngeles

\* C16: for an absent input or a text, normalizeTimezone returns
\* "America/Chicago" for an empty or absent input, the mapped zone for each of
\* the eight aliases in any letter case (white space around it set aside), and
\* every other non-empty text unchanged; the result is always a non-empty
\* text.
C16_NormalizeReference ==
  (Returned1("normalizeTimezone") /\ req[1].loc.args.input.t \in {"undef", "null", "str"}) =>
    LET input == req[1].loc.args.input
        result == req[1].loc.result
    IN /\ result.t = "str" /\ Len(result.s) > 0
       /\ IF input \in {Undef, Null, EmptyStr} THEN result = Str(Chicago)
          ELSE IF ToLower(Trim(input.s)) \in Aliases
          THEN result = Str(AliasZone(ToLower(Trim(input.s))))
          ELSE result = input

\* C17: slotMatchesWindow returns true when no window is given; with a window
\* it returns true exactly when the local hour h (0..23) of the instant in the
\* time zone satisfies window.start <= h < window.end; and it returns true
\* when the local hour cannot be obtained (an invalid date, an unknown zone).
C17_SlotReference ==
  Returned1("slotMatchesWindow") =>
    LET a == req[1].loc.args
        zone == ZoneOf(a.timezone)
    IN req[1].loc.result =
         IF a.window.none THEN TRUE
         ELSE IF ~ValidDate(a.iso) \/ zone = << >> THEN TRUE
         ELSE LET h == (a.iso.h + UtcOffset(zone, a.iso.dst) + 24) % 24
              IN a.window.start <= h /\ h < a.window.end

\* C18: in /api/schedule/confirm, once the location lookup has failed (a
\* thrown call or a failure status), the invitee-creation call is issued
\* without a location payload, and the response is 200 exactly when that call
\* answered with success, 500 otherwise.
C18_LocationFailureIgnored ==
  (req[1].ep = "confirm" /\ Failed(req[1].loc.locationOut)) =>
    /\ CallsOf({"calendar_invitee"}) # {}
    /\ \A i \in CallsOf({"calendar_invitee"}) : "location" \notin DOMAIN calls[1][i].payload
    /\ Finished(1) =>
         /\ req[1].loc.inviteeOut # NotCalled
         /\ Status(1) = IF Answered(req[1].loc.inviteeOut) THEN 200 ELSE 500

\* the positions, in the request's outbound calls, of the invitee-creation call
InviteeCalls == CallsOf({"calendar_invitee"})

\* the positions of the location lookup
LookupCalls == CallsOf({"calendar_event_type"})

\* what C19 says of the invitee call's outcome: a failure status gives 500, and
\* a 200 with summary, rescheduleUrl and cancelUrl needs the call to have been
\* issued and to have succeeded
InviteeDecides ==
  /\ (Finished(1) /\ req[1].loc.inviteeOut # NotCalled /\ req[1].loc.inviteeOut.ok
        /\ ~req[1].loc.inviteeOut.v.ok) => Status(1) = 500
  /\ (Finished(1) /\ Status(1) = 200) =>
       /\ InviteeCalls # {}
       /\ Succeeded(req[1].loc.inviteeOut)
       /\ DOMAIN resp[1][1].body.f = {"summary", "rescheduleUrl", "cancelUrl"}

\* C19 as stated: a confirm request issues the invitee-creation call at most
\* once, and only when the location lookup has completed; its outcome decides
\* the response as above.
C19_AsStated ==
  req[1].ep = "confirm" =>
    /\ Cardinality(InviteeCalls) <= 1
    /\ InviteeCalls # {} => req[1].loc.locationOut # NotCalled
    /\ InviteeDecides

\* C19, amended: a confirm request issues the invitee-creation call at most
\* once; the location lookup is made exactly when the last path segment of
\* eventTypeUri is not empty, and then the invitee call is issued after the
\* lookup has returned; when that segment is empty the invitee call is issued
\* with no lookup.  The outcome of the invitee call decides the response as
\* above.
C19_InviteeOnce ==
  req[1].ep = "confirm" =>
    /\ Cardinality(InviteeCalls) <= 1
    /\ Cardinality(LookupCalls) <= 1
    /\ LookupCalls # {} => Len(LastSegment(req[1].loc.eventTypeUri)) > 0
    /\ InviteeCalls # {} =>
         IF Len(LastSegment(req[1].loc.eventTypeUri)) > 0
         THEN /\ req[1].loc.locationOut # NotCalled
              /\ \A i \in LookupCalls, j \in InviteeCalls : i < j
              /\ LookupCalls # {}
         ELSE req[1].loc.locationOut = NotCalled /\ LookupCalls = {}
    /\ InviteeDecides

\* a booking made after a lookup that gave a location
C19_Witness ==
  /\ Done("confirm") /\ Status(1) = 200
  /\ Answered(req[1].loc.locationOut)
  /\ \E j \in InviteeCalls : "location" \in DOMAIN calls[1][j].payload
  /\ Field1("rescheduleUrl") # Undef

\* the positions, in the calendar's event-type list, of the elements whose
\* name contains "intro" in any letter case
IntroPositions(eventTypes) == {i \in 1..Len(eventTypes) : IsIntro(eventTypes[i])}

\* the element C20 names: the first of those, the first of the list when none
NamedEventType(eventTypes) ==
  IF IntroPositions(eventTypes) = {} THEN eventTypes[1]
  ELSE eventTypes[CHOOSE i \in IntroPositions(eventTypes) :
                     \A j \in IntroPositions(eventTypes) : i <= j]

\* C20: once /api/schedule has selected an event type, the selected uri is the
\* uri of the first element of the calendar's event-type list whose name
\* contains "intro" in any letter case, of the first element when no name
\* contains it; the eventTypeUri of a 200 response is that uri.
C20_SelectsIntro ==
  (req[1].ep = "schedule" /\ req[1].loc.eventTypeUri # Undef) =>
    /\ Len(req[1].loc.eventTypes) > 0
    /\ req[1].loc.eventTypeUri = OptGet(NamedEventType(req[1].loc.eventTypes), "uri")
    /\ (Finished(1) /\ Status(1) = 200) =>
         Field1("eventTypeUri") = OptGet(NamedEventType(req[1].loc.eventTypes), "uri")

\* a 200 response for a list whose second and third names contain "intro", in
\* upper and in mixed case
C20_Witness ==
  /\ Done("schedule") /\ Status(1) = 200
  /\ IntroPositions(req[1].loc.eventTypes) = {2, 3}
  /\ Field1("eventTypeUri") = OptGet(EventUpper, "uri")

\* the keywords of each additional service, with the field the code looks in
ServiceKeywords ==
  << [service |-> Lit("AI Integration"),
      pain |-> {<<"m","a","n","u","a","l">>, <<"s","p","r","e","a","d","s","h","e","e","t">>},
      goals |-> {}, tools |-> {<<"c","r","m">>}],
     [service |-> Lit("Custom AI Development"),
      pain |-> {<<"r","e","p","e","t","i","t","i","v","e">>, <<"a","d","m","i","n">>},
      goals |-> {<<"a","u","t","o","m","a","t","e">>}, tools |-> {}],
     [service |-> Lit("AI Training & Enablement"),
      pain |-> {<<"a","d","o","p","t","i","o","n">>},
      goals |-> {<<"t","r","a","i","n","i","n","g">>}, tools |-> {}],
     [service |-> Lit("Ongoing AI Support"),
      pain |-> {<<"m","a","i","n","t","e","n","a","n","c","e">>},
      goals |-> {<<"s","u","p","p","o","r","t">>}, tools |-> {}] >>

\* the services of a returned fallback report, as a set
ServicesOf(report) ==
  {report.f.recommended_services.a[i] : i \in 1..Len(report.f.recommended_services.a)}

\* a field of the returned report's extracted mapping, lowercased
LowerField(report, name) == LowerText(report.f.extracted.f[name])

\* C21 as stated: the fallback report's recommended_services contains "AI
\* Strategy Assessment", and contains each additional service exactly when one
\* of its keywords is present in the lowercased pain-points, goals or tools
\* field.
C21_AsStated ==
  Returned1("buildFallbackReport") =>
    LET report == req[1].loc.result
    IN /\ Lit("AI Strategy Assessment") \in ServicesOf(report)
       /\ \A n \in 1..Len(ServiceKeywords) :
            ServiceKeywords[n].service \in ServicesOf(report) <=>
              \E w \in ServiceKeywords[n].pain \cup ServiceKeywords[n].goals
                         \cup ServiceKeywords[n].tools :
                 \E name \in {"pain_points", "goals", "tools"} :
                    Includes(LowerField(report, name), w)

\* C21, amended: the fallback report's recommended_services contains "AI
\* Strategy Assessment" and no service outside the five, each once; it contains
\* an additional service exactly when one of its keywords is present in the
\* lowercased field that keyword is looked for in: manual, spreadsheet,
\* repetitive, admin, adoption and maintenance in pain_points; automate,
\* training and support in goals; crm in tools.
C21_ServicesByField ==
  Returned1("buildFallbackReport") =>
    LET report == req[1].loc.result
        list == report.f.recommended_services.a
    IN /\ list[1] = Lit("AI Strategy Assessment")
       /\ \A i, j \in 1..Len(list) : list[i] = list[j] => i = j
       /\ ServicesOf(report) \subseteq
            {Lit("AI Strategy Assessment")}
              \cup {ServiceKeywords[n].service : n \in 1..Len(ServiceKeywords)}
       /\ \A n \in 1..Len(ServiceKeywords) :
            ServiceKeywords[n].service \in ServicesOf(report) <=>
              \/ \E w \in ServiceKeywords[n].pain :
                    Includes(LowerField(report, "pain_points"), w)
              \/ \E w \in ServiceKeywords[n].goals :
                    Includes(LowerField(report, "goals"), w)
              \/ \E w \in ServiceKeywords[n].tools :
                    Includes(LowerField(report, "tools"), w)

\* "crm" in the tools field alone brings AI Integration, "manual" in the goals
\* field brings nothing
C21_Witness ==
  /\ Returned1("buildFallbackReport")
  /\ req[1].loc.result.f.extracted.f.pain_points = Lit("unknown")
  /\ LowerField(req[1].loc.result, "goals") = <<"m","a","n","u","a","l"," ","e","n","t","r","y">>
  /\ LowerField(req[1].loc.result, "tools") = <<"o","u","r"," ","c","r","m">>
  /\ ServicesOf(req[1].loc.result) = {Lit("AI Strategy Assessment"), Lit("AI Integration")}

\* the positions of the items keyed "email", of the items whose question
\* mentions "email", and of the items whose answer matches the email pattern
KeyedAt(answers) == {i \in 1..Len(answers) : KeyIsEmail(answers[i])}

AskedAt(answers) == {i \in 1..Len(answers) : QuestionMentionsEmail(answers[i])}

PatternAt(answers) == {i \in 1..Len(answers) : AnswerLooksLikeEmail(answers[i])}

\* the answer of the first item of a non-empty set of positions
FirstAnswer(answers, at) ==
  OptGet(answers[CHOOSE i \in at : \A j \in at : i <= j], "answer")

\* the address a raw answer gives: its text, trimmed
AddressOf(answer) == Trim(ToStr(Or(answer, EmptyStr)))

\* the walkthrough request has read its answers
Discovered == req[1].ep = "walkthrough" /\ req[1].pc # "idle"

\* C22 as stated: the notification address is the answer of the first item
\* keyed "email" if there is one; else of the first item whose question
\* mentions "email" if there is one; else of the first item whose answer
\* matches the email pattern; else none.  A lower rule is used only when no
\* item matches a higher one.
C22_AsStated ==
  Discovered =>
    LET answers == req[1].loc.answers
    IN req[1].loc.userEmail =
         IF KeyedAt(answers) # {} THEN AddressOf(FirstAnswer(answers, KeyedAt(answers)))
         ELSE IF AskedAt(answers) # {} THEN AddressOf(FirstAnswer(answers, AskedAt(answers)))
         ELSE IF PatternAt(answers) # {}
         THEN AddressOf(FirstAnswer(answers, PatternAt(answers)))
         ELSE << >>

\* a rule gives an answer when it has a first matching item and that item's
\* answer is not empty
Gives(answers, at) == at # {} /\ Truthy(FirstAnswer(answers, at))

\* C22, amended: each rule looks at its first matching item only; the
\* notification address is the trimmed answer given by the highest rule (key,
\* then question, then pattern) whose first matching item has a non-empty
\* answer, and there is none when no rule gives one.  A lower rule is used
\* when no item matches a higher rule or the higher rule's first item has an
\* empty answer.  The address is a function of the raw answers alone: it is
\* fixed before the report is made and every user send goes to it.
C22_AddressPriority ==
  Discovered =>
    LET answers == req[1].loc.answers
    IN /\ req[1].loc.userEmail =
            IF Gives(answers, KeyedAt(answers))
            THEN AddressOf(FirstAnswer(answers, KeyedAt(answers)))
            ELSE IF Gives(answers, AskedAt(answers))
            THEN AddressOf(FirstAnswer(answers, AskedAt(answers)))
            ELSE IF Gives(answers, PatternAt(answers))
            THEN AddressOf(FirstAnswer(answers, PatternAt(answers)))
            ELSE << >>
       /\ \A i \in CallsOf({"email_user"}) : calls[1][i].to = Str(req[1].loc.userEmail)

\* the keyed item comes after an item that asks for the address and one that
\* looks like an address, and the user send went to the keyed item's answer
C22_Witness ==
  /\ Done("walkthrough")
  /\ req[1].loc.answers = <<ItemAsk, ItemEmail>>
  /\ \E i \in CallsOf({"email_user"}) : calls[1][i].to = Str(<<"a","@","b",".","c","o">>)

\* the request of slot s has executed the limiter step
Limited(s) == req[s].ep = "chat" /\ req[s].loc.limited

\* the request of slot s was let through by the limiter
Allowed(s) == Limited(s) /\ ~(Finished(s) /\ Status(s) = 429)

\* the requests in flight or answered that were counted in the window the
\* entry of ip is in now
CountedNow(ip) ==
  {s \in Slots : /\ Limited(s) /\ req[s].loc.ip = ip
                 /\ req[s].loc.entry.resetAt = rateLimitStore[ip].resetAt}

\* slot s executes the limiter step in this step
LimiterStep(s) == Free(s) /\ req'[s].ep = "chat" /\ req'[s].loc.limited

\* C23: with two /api/chat requests interleaved at the AI call, every limiter
\* step is one atomic read-modify-write: it adds exactly one to the entry of
\* its identifier within the window (sets it to one at the start of a window),
\* whatever the other request is doing, and no other step of any request
\* writes the table; so the k-th request counted in a window sees the count k,
\* no two requests counted in the same window see the same count, the entry
\* counts at least as many as any of them saw, and a counted request is let
\* through exactly when the count it saw is at most 20.
C23_AtomicLimiter ==
  [][ /\ \A s \in Slots :
           LimiterStep(s) =>
             LET ip == req'[s].loc.ip
                 inWindow == ip \in DOMAIN rateLimitStore
                               /\ clock <= rateLimitStore[ip].resetAt
             IN /\ rateLimitStore'[ip].count =
                     IF inWindow THEN rateLimitStore[ip].count + 1 ELSE 1
                /\ inWindow => rateLimitStore'[ip].resetAt = rateLimitStore[ip].resetAt
                /\ req'[s].loc.entry = rateLimitStore'[ip]
                /\ \A other \in DOMAIN rateLimitStore \ {ip} :
                      rateLimitStore'[other] = rateLimitStore[other]
      /\ (\A s \in Slots : ~LimiterStep(s)) => rateLimitStore' = rateLimitStore
      /\ \A s \in Slots :
           Limited(s)' =>
             /\ req'[s].loc.ip \in DOMAIN rateLimitStore'
             /\ Allowed(s)' <=> req'[s].loc.entry.count <= 20
      /\ \A ip \in DOMAIN rateLimitStore' :
           /\ \A s, u \in CountedNow(ip)' :
                 s # u => req'[s].loc.entry.count # req'[u].loc.entry.count
           /\ \A s \in CountedNow(ip)' :
                 req'[s].loc.entry.count \in 1..rateLimitStore'[ip].count
    ]_vars

\* a request is suspended at the AI call with the count 20, and the request
\* that ran meanwhile from the same identifier saw 21 and was answered 429
C23_Witness ==
  /\ req[1].pc = "chat_ai" /\ req[1].loc.entry.count = 20
  /\ Limited(2) /\ Finished(2) /\ Status(2) = 429
  /\ req[2].loc.ip = req[1].loc.ip /\ req[2].loc.entry.count = 21
  /\ rateLimitStore[req[1].loc.ip].count = 21

\* the entries the request of slot 1 has logged
Logged == {logs[1][i] : i \in 1..Len(logs[1])}

\* the send of sendResendEmail failed: the fetch threw or answered a failure
SendFailed(out) == out # NotCalled /\ ~sendResendEmail(out).ok

\* C24: every absorbed error has a log entry in the request that absorbed it:
\* a failed AI call or parse in /api/walkthrough, a failed internal send, a
\* failed user send, and a failed location lookup in /api/schedule/confirm.
C24_AbsorbedErrorsLogged ==
  /\ req[1].ep = "walkthrough" =>
       /\ (req[1].loc.aiOut # NotCalled /\ ModelAnswer(req[1].loc.aiOut).err) =>
            "Walkthrough model error:" \in Logged
       /\ SendFailed(req[1].loc.internalOut) =>
            "Internal walkthrough email error:" \in Logged
       /\ SendFailed(req[1].loc.userOut) =>
            "User walkthrough email error:" \in Logged
  /\ (req[1].ep = "confirm" /\ Failed(req[1].loc.locationOut)) => Logged # {}

\* C25: a /api/chat request issues at most one AI completion call, and issues
\* it exactly when the provider is configured, the limiter counted the request
\* as one of the first 20 of its identifier's window and the trimmed message
\* has 1 to 800 characters; so a window sees at most 20 AI calls per
\* identifier, and a request answered 429 or 400 has issued none.
C25_AICallsGated ==
  req[1].ep = "chat" =>
    /\ Len(calls[1]) <= 1
    /\ \A i \in 1..Len(calls[1]) : calls[1][i].kind = "ai"
    /\ calls[1] # << >> <=>
         /\ openai /\ req[1].loc.limited
         /\ req[1].loc.entry.count \in 1..20
         /\ Len(req[1].loc.message) \in 1..800
    /\ (Finished(1) /\ Status(1) \in {429, 400}) => calls[1] = << >>
    /\ (req[1].loc.limited /\ req[1].loc.entry.count > 20) =>
         (Finished(1) /\ Status(1) = 429)
    /\ (Finished(1) /\ Status(1) = 429) => req[1].loc.entry.count > 20

\* the 20th request of a window, with a message of 800 characters, reached
\* the AI provider
C25_Witness ==
  /\ Done("chat") /\ Status(1) = 200
  /\ req[1].loc.entry.count = 20 /\ Len(req[1].loc.message) = 800
  /\ Len(calls[1]) = 1

\* the request of slot 1 has been received
Received == req[1].pc # "idle"

\* C26: when every outbound call eventually returns or throws, each request to
\* /api/chat, /api/walkthrough, /api/schedule or /api/schedule/confirm is
\* eventually answered, and it is answered once: the handler is over exactly
\* when one response has been sent, and no second response is ever sent.
C26_OneResponse ==
  /\ [](Len(resp[1]) <= 1)
  /\ [](Received => (Finished(1) <=> Len(resp[1]) = 1))
  /\ [](Received => req[1].ep \in {"chat", "walkthrough", "schedule", "confirm"})
  /\ (Received ~> Finished(1))

\* a request whose outbound call threw has its one response
C26_Witness ==
  /\ Done("confirm") /\ Len(resp[1]) = 1 /\ Status(1) = 500
  /\ req[1].loc.locationOut # NotCalled /\ ~req[1].loc.locationOut.ok

====
